---------------------------- MODULE Spec2Model ----------------------------
(***************************************************************************)
(* A model of src/profit_blog.py (ProBlogBotV4): the staged generation     *)
(* pipeline of run(), the media resolver step_5_add_images at the level    *)
(* of characters, and the duplicate check is_duplicate at the level of     *)
(* title tokens.                                                           *)
(*                                                                         *)
(* Eight specifications share the variables:                               *)
(*   Spec / FairSpec  run() from line 1267 (topic already selected) to the *)
(*                    end of the run; the other machines stay idle;        *)
(*   SpecRun          run() from its first call, with the corpus load and  *)
(*                    the topic selection as steps of their own;           *)
(*   SpecMedia        one call of step_5_add_images on a body built from   *)
(*                    characters, one loop iteration per step;             *)
(*   SpecDup          one call of is_duplicate, one corpus article per     *)
(*                    step;                                                *)
(*   SpecTopic        one call of step_0_generate_topic, with the scan of  *)
(*                    _topic_fallback one table entry per step;            *)
(*   SpecFetch        one call of fetch_existing_posts, one listing        *)
(*                    request per step;                                    *)
(*   SpecRelated      one call of find_related_posts, alone or from        *)
(*                    step_6_add_internal_links;                           *)
(*   SpecData         run() at the level of the values it creates at its   *)
(*                    start and hands from stage to stage: the variation   *)
(*                    profile, the corpus, the topic, the title, the       *)
(*                    labels.                                              *)
(***************************************************************************)
EXTENDS Integers, Sequences, FiniteSets, TLC

VARIABLES
    \* ---- run(): the pipeline ----
    unsplash_key,          \* self.unsplash_key is set
    pc,                    \* position in run()
    plan,                  \* local `plan` of run()
    planPath,              \* which function returned the plan
    title,                 \* local `title` of run()
    draft,                 \* local `draft`
    improved,              \* local `improved`
    humanized,             \* local `humanized`
    with_images,           \* local `with_images`
    final_content,         \* local `final_content`
    conversation_history,  \* self.conversation_history
    modelCalls,            \* every self._call_claude made, in order
    lastResponse,          \* what the latest self._call_claude did
    searchCalls,           \* number of requests.get image searches made
    insertCalls,           \* number of posts().insert(...).execute() made
    insertRequests,        \* every posts().insert(...) request executed, in order
    receipt,               \* what step_7_publish returned
    abortStage,            \* stage whose failure made run() return early
    crashAt,               \* place of an uncaught exception in run()
    \* ---- step_5_add_images on characters ----
    mpc, mKey, mBody, mContent, mMarkers, mIdx, mOutcomes, mQueries,
    \* ---- is_duplicate ----
    dpc, dTitle, dPosts, dResult,
    \* ---- step_0_generate_topic and _topic_fallback ----
    tpc,                   \* position in step_0_generate_topic / _topic_fallback
    tPosts,                \* the titles of self.existing_posts
    tGen,                  \* what the generative topic call did
    tCalls,                \* number of generative topic calls made
    tFallbacks,            \* number of times _topic_fallback was entered
    tShuffled,             \* all_topics after random.shuffle
    tIdx,                  \* position of the scan in all_topics
    tResult,               \* the (category, topic) pair returned
    \* ---- fetch_existing_posts ----
    fpc,                   \* position in fetch_existing_posts
    blog_id,               \* self.blog_id is set
    fPage,                 \* number of the live page `request` stands for
    fPosts,                \* local `posts`
    fFailure,              \* the call that raised, if any
    existing_posts,        \* self.existing_posts
    fResult,               \* what fetch_existing_posts returned
    \* ---- find_related_posts and step_6_add_internal_links ----
    rpc,                   \* position: a call of find_related_posts or of step 6
    rTitle,                \* argument `title`
    rLabels,               \* argument `labels`
    rMax,                  \* argument `max_links`
    rPosts,                \* self.existing_posts
    rResult,               \* the posts returned, by their place in the corpus
    rContent,              \* the body step_6_add_internal_links returned
    \* ---- run(): the values handed from stage to stage ----
    xpc,                   \* position in run()
    xMode,                 \* CURRENT_MODE
    persona,               \* self.persona
    system_prompt,         \* self.system_prompt
    writing_format,        \* self.writing_format
    tone,                  \* self.tone
    quirks,                \* self.quirks
    xPosts,                \* self.existing_posts, by the titles
    xCategory,             \* local `category` of run()
    xTopic,                \* local `topic` of run()
    xTitle,                \* local `title` of run()
    xTags,                 \* local `tags` of run(), given to step 6
    xLabels                \* body['labels'] of the insert request

pipeVars == <<unsplash_key, pc, plan, planPath, title, draft, improved, humanized,
              with_images, final_content, conversation_history, modelCalls,
              lastResponse, searchCalls, insertCalls,
              insertRequests, receipt, abortStage, crashAt>>
mediaVars == <<mpc, mKey, mBody, mContent, mMarkers, mIdx, mOutcomes, mQueries>>
dupVars == <<dpc, dTitle, dPosts, dResult>>
topicVars == <<tpc, tPosts, tGen, tCalls, tFallbacks, tShuffled, tIdx, tResult>>
fetchVars == <<fpc, blog_id, fPage, fPosts, fFailure, existing_posts, fResult>>
relVars == <<rpc, rTitle, rLabels, rMax, rPosts, rResult, rContent>>
dataVars == <<xpc, xMode, persona, system_prompt, writing_format, tone, quirks,
              xPosts, xCategory, xTopic, xTitle, xTags, xLabels>>
vars == <<pipeVars, mediaVars, dupVars, topicVars, fetchVars, relVars, dataVars>>

-----------------------------------------------------------------------------
(* Bounds of the model *)

\* characters a sanitize_html pass can strip from a model output
MaxJunk == 1
\* most entries of image_queries a parsed plan carries
MaxQueries == 3
\* most [IMAGE: ...] markers of the body in the pipeline
MaxMarkers == 2

\* len(result) < 500 in step_3_self_critique and step_4_humanize
MinLength == 500

-----------------------------------------------------------------------------
(* Texts: a model output is known by the stage that asked for it, its      *)
(* length and the number of its characters sanitize_html removes.          *)

RawLens == {0, MinLength - MaxJunk, MinLength, MinLength + MaxJunk}

RawTexts(stage) ==
    { t \in [by : {stage}, len : RawLens, junk : {0, MaxJunk}] : t.junk <= t.len }

\* a document: who wrote it, its length, and what the media resolver and the
\* related-links step did to it
Doc(by, len) == [by |-> by, len |-> len, images |-> 0, stripped |-> 0, links |-> 0]

\* Python's None and "" where a document is expected
NoneText == Doc("None", 0)
EmptyText == Doc("empty", 0)

\* SecurityValidator.sanitize_html: "" for an empty text, otherwise the text
\* with fences and dangerous patterns removed and the ends stripped
sanitize_html(raw) ==
    IF raw.len = 0 THEN EmptyText
    ELSE IF raw.len - raw.junk = 0 THEN EmptyText
    ELSE Doc(raw.by, raw.len - raw.junk)

\* one self._call_claude: the API raises, or returns a response with a text
CallOutcomes(stage) ==
    {[ok |-> FALSE]} \cup {[ok |-> TRUE, text |-> t] : t \in RawTexts(stage)}

-----------------------------------------------------------------------------
(* Plans: a parsed JSON value is known by whether it is an object, whether  *)
(* Python finds it truthy, which required fields it lacks and how many      *)
(* image_queries it carries.                                                *)

RequiredFields == {"working_title", "hook_concept", "contrarian_angle",
                   "sections", "honest_caveat", "image_queries"}

MissingChoices ==
    {{}} \cup {{f} : f \in RequiredFields} \cup {RequiredFields}

\* what json.loads can return
JsonValues ==
    { [kind |-> "other", truthy |-> b, missing |-> {}, nq |-> 0, padded |-> FALSE] :
        b \in BOOLEAN }
    \cup
    { v \in [kind : {"object"}, truthy : BOOLEAN, missing : MissingChoices,
             nq : 0..MaxQueries, padded : {FALSE}] :
        /\ v.truthy = (v.missing # RequiredFields)
        /\ ("image_queries" \in v.missing => v.nq = 0) }

\* the outcome of one planning call: the API raises, the text is no JSON,
\* or it parses to a value
PlanOutcomes ==
    {[ok |-> FALSE, parsed |-> FALSE], [ok |-> TRUE, parsed |-> FALSE]}
    \cup {[ok |-> TRUE, parsed |-> TRUE, value |-> v] : v \in JsonValues}

\* step_1_plan, lines 857-858: fewer than 2 image_queries are replaced by
\* the two default queries
PadQueries(v) ==
    IF v.nq < 2
    THEN [v EXCEPT !.nq = 2, !.missing = v.missing \ {"image_queries"},
                   !.truthy = TRUE, !.padded = TRUE]
    ELSE v

\* Python's None where a plan is expected
NonePlan == [kind |-> "None", truthy |-> FALSE, missing |-> {}, nq |-> 0,
             padded |-> FALSE]

\* Python's `not plan`
Falsy(p) == ~p.truthy

\* plan[field] raises (TypeError on a non-object, KeyError on a missing key)
Raises(p, field) == p.kind # "object" \/ field \in p.missing

\* self._append_to_history
_append_to_history(history, role, stage) ==
    Append(history, [role |-> role, stage |-> stage])

\* how a call ended: the API raised, the text did not parse as JSON (planning
\* calls only), or the call returned
CallClass(o) ==
    IF ~o.ok THEN "raised"
    ELSE IF "parsed" \in DOMAIN o /\ ~o.parsed THEN "unparsed"
    ELSE "returned"

\* the record of one self._call_claude: the stage, the messages sent, how
\* it ended
Call(stage, messages, o) ==
    [stage |-> stage, messages |-> messages, outcome |-> CallClass(o)]

-----------------------------------------------------------------------------
(* run(): the pipeline. Spec starts it at line 1267, SpecRun at line 1260 *)

NoTitle == [set |-> FALSE, suffix |-> FALSE]

PipeInit ==
    /\ unsplash_key \in BOOLEAN
    /\ pc = "plan"
    /\ plan = NonePlan
    /\ planPath = "none"
    /\ title = NoTitle
    /\ draft = NoneText
    /\ improved = NoneText
    /\ humanized = NoneText
    /\ with_images = NoneText
    /\ final_content = NoneText
    /\ conversation_history = << >>
    /\ modelCalls = << >>
    /\ lastResponse = [ok |-> FALSE]
    /\ searchCalls = 0
    /\ insertCalls = 0
    /\ insertRequests = << >>
    /\ receipt = "unset"
    /\ abortStage = "none"
    /\ crashAt = "none"

\* run() line 1260: fetch_existing_posts returns whatever the listing did
\* (it raises nothing); this machine does not carry the corpus, the steps
\* that read it choose their answer freely
FetchExistingPosts ==
    /\ pc = "load"
    /\ pc' = "topic"
    /\ UNCHANGED <<unsplash_key, plan, planPath, title, draft, improved, humanized,
                   with_images, final_content, conversation_history, modelCalls,
                   lastResponse, searchCalls, insertCalls, insertRequests, receipt,
                   abortStage, crashAt>>
    /\ UNCHANGED <<mediaVars, dupVars, topicVars, fetchVars, relVars, dataVars>>

\* the generative topic call: the API raises or returns a text
TopicCallOutcomes == {[ok |-> FALSE], [ok |-> TRUE]}

\* step_0_generate_topic, lines 724-754: one call whose only message is the
\* topic prompt, the history neither sent nor changed; the pair is returned
\* to run(), which resets the history (line 1267), unless the call raised,
\* the text did not parse, a field is missing or the topic is a duplicate:
\* then _topic_fallback is entered
Step0GenerateTopic ==
    /\ pc = "topic"
    /\ \E o \in TopicCallOutcomes :
        /\ modelCalls' = Append(modelCalls,
               Call("topic", <<[role |-> "user", stage |-> "topic"]>>, o))
        /\ lastResponse' = o
        /\ \E rejected \in BOOLEAN :
              IF ~o.ok \/ rejected
              THEN pc' = "topic_fallback" /\ UNCHANGED conversation_history
              ELSE pc' = "plan" /\ conversation_history' = << >>
    /\ UNCHANGED <<unsplash_key, plan, planPath, title, draft, improved, humanized,
                   with_images, final_content, searchCalls, insertCalls,
                   insertRequests, receipt, abortStage, crashAt>>
    /\ UNCHANGED <<mediaVars, dupVars, topicVars, fetchVars, relVars, dataVars>>

\* _topic_fallback, lines 756-777, makes no model call and always returns a
\* pair; run() resets the history (line 1267)
Step0TopicFallback ==
    /\ pc = "topic_fallback"
    /\ pc' = "plan"
    /\ conversation_history' = << >>
    /\ UNCHANGED <<unsplash_key, plan, planPath, title, draft, improved, humanized,
                   with_images, final_content, modelCalls, lastResponse,
                   searchCalls, insertCalls, insertRequests, receipt, abortStage,
                   crashAt>>
    /\ UNCHANGED <<mediaVars, dupVars, topicVars, fetchVars, relVars, dataVars>>

\* step_1_plan, lines 842-864, up to the call of _plan_fallback: TRUE when
\* the structured attempt raised (the call, json.loads, or plan.get on a value
\* that is no object)
StructuredPlanFails(o) ==
    ~o.ok \/ ~o.parsed \/ o.value.kind # "object"

\* step_1_plan: the prompt is appended, the structured call is made with the
\* whole history, the response is appended when the call returned
Step1Plan ==
    /\ pc = "plan"
    /\ \E o \in PlanOutcomes :
        LET h1 == _append_to_history(conversation_history, "user", "plan")
            h2 == IF o.ok THEN _append_to_history(h1, "assistant", "plan") ELSE h1
        IN  /\ modelCalls' = Append(modelCalls, Call("plan", h1, o))
            /\ lastResponse' = o
            /\ conversation_history' = h2
            /\ IF StructuredPlanFails(o)
               THEN /\ pc' = "plan_fallback"
                    /\ UNCHANGED <<plan, planPath>>
               ELSE /\ plan' = PadQueries(o.value)
                    /\ planPath' = "structured"
                    /\ pc' = "check_plan"
    /\ UNCHANGED <<unsplash_key, title, draft, improved, humanized, with_images,
                   final_content, searchCalls, insertCalls, insertRequests, receipt,
                   abortStage, crashAt>>
    /\ UNCHANGED <<mediaVars, dupVars, topicVars, fetchVars, relVars, dataVars>>

\* _plan_fallback answering a failed retry with a default plan
PlanFallbackResult_Default(o) ==
    IF o.ok /\ o.parsed THEN o.value
    ELSE [kind |-> "object", truthy |-> TRUE, missing |-> {}, nq |-> 2,
          padded |-> TRUE]

\* _plan_fallback, lines 885-904: the parsed value, whatever it is, or None
\* when the call raised or the text did not parse
PlanFallbackResult(o) ==
    IF o.ok /\ o.parsed THEN o.value ELSE NonePlan

\* _plan_fallback going on in the history step_1_plan left
PlanFallback_NoReset ==
    /\ pc = "plan_fallback"
    /\ \E o \in PlanOutcomes :
        LET h1 == _append_to_history(conversation_history, "user", "plan_fallback")
            h2 == IF o.ok THEN _append_to_history(h1, "assistant", "plan_fallback")
                  ELSE h1
        IN  /\ modelCalls' = Append(modelCalls, Call("plan_fallback", h1, o))
            /\ lastResponse' = o
            /\ conversation_history' = h2
            /\ plan' = PlanFallbackResult(o)
            /\ planPath' = "fallback"
            /\ pc' = "check_plan"
    /\ UNCHANGED <<unsplash_key, title, draft, improved, humanized, with_images,
                   final_content, searchCalls, insertCalls, insertRequests, receipt,
                   abortStage, crashAt>>
    /\ UNCHANGED <<mediaVars, dupVars, topicVars, fetchVars, relVars, dataVars>>

\* _plan_fallback: the history is reset, the relaxed prompt appended, one
\* unstructured call made
PlanFallback ==
    /\ pc = "plan_fallback"
    /\ \E o \in PlanOutcomes :
        LET h1 == _append_to_history(<< >>, "user", "plan_fallback")
            h2 == IF o.ok THEN _append_to_history(h1, "assistant", "plan_fallback")
                  ELSE h1
        IN  /\ modelCalls' = Append(modelCalls, Call("plan_fallback", h1, o))
            /\ lastResponse' = o
            /\ conversation_history' = h2
            /\ plan' = PlanFallbackResult(o)
            /\ planPath' = "fallback"
            /\ pc' = "check_plan"
    /\ UNCHANGED <<unsplash_key, title, draft, improved, humanized, with_images,
                   final_content, searchCalls, insertCalls, insertRequests, receipt,
                   abortStage, crashAt>>
    /\ UNCHANGED <<mediaVars, dupVars, topicVars, fetchVars, relVars, dataVars>>

\* run(), lines 1271-1284: abort without a plan; read the title, adjust a
\* duplicate one, print the angle
CheckPlan ==
    /\ pc = "check_plan"
    /\ \/ /\ Falsy(plan)
          /\ pc' = "aborted"
          /\ abortStage' = "plan"
          /\ UNCHANGED <<title, crashAt>>
       \/ /\ ~Falsy(plan)
          /\ Raises(plan, "working_title")
          /\ pc' = "crashed"
          /\ crashAt' = "working_title"
          /\ UNCHANGED <<title, abortStage>>
       \/ /\ ~Falsy(plan)
          /\ ~Raises(plan, "working_title")
          /\ \E dup \in BOOLEAN :
                title' = [set |-> TRUE, suffix |-> dup]
          /\ IF Raises(plan, "contrarian_angle")
             THEN pc' = "crashed" /\ crashAt' = "contrarian_angle"
             ELSE pc' = "draft" /\ UNCHANGED crashAt
          /\ UNCHANGED abortStage
    /\ UNCHANGED <<unsplash_key, plan, planPath, draft, improved, humanized,
                   with_images, final_content, conversation_history,
                   modelCalls, lastResponse, searchCalls, insertCalls, insertRequests, receipt>>
    /\ UNCHANGED <<mediaVars, dupVars, topicVars, fetchVars, relVars, dataVars>>

\* step_2_write_draft, lines 913-942: building the prompt raises on a missing
\* sections, honest_caveat or image_queries, or on fewer than 2 image_queries
DraftPromptRaises(p) ==
    \/ Raises(p, "sections")
    \/ Raises(p, "honest_caveat")
    \/ Raises(p, "image_queries")
    \/ p.nq < 2

\* step_2_write_draft, lines 946-959: the sanitized text, or None when the
\* call raised
WriteDraftResult(o) ==
    IF o.ok THEN sanitize_html(o.text) ELSE NoneText

\* run() without its `if not draft` check: the pipeline goes on with no body
Step2WriteDraft_NoAbort ==
    /\ pc = "draft"
    /\ ~DraftPromptRaises(plan)
    /\ \E o \in CallOutcomes("draft") :
        LET h1 == _append_to_history(conversation_history, "user", "draft")
            h2 == IF o.ok THEN _append_to_history(h1, "assistant", "draft")
                  ELSE h1
        IN  /\ modelCalls' = Append(modelCalls, Call("draft", h1, o))
            /\ lastResponse' = o
            /\ conversation_history' = h2
            /\ draft' = WriteDraftResult(o)
            /\ pc' = "critique"
    /\ UNCHANGED <<unsplash_key, plan, planPath, title, improved, humanized,
                   with_images, final_content, searchCalls, insertCalls, insertRequests,
                   receipt, abortStage, crashAt>>
    /\ UNCHANGED <<mediaVars, dupVars, topicVars, fetchVars, relVars, dataVars>>

\* step_2_write_draft and run() lines 1287-1290
Step2WriteDraft ==
    /\ pc = "draft"
    /\ \/ /\ DraftPromptRaises(plan)
          /\ pc' = "crashed"
          /\ crashAt' = "draft_prompt"
          /\ UNCHANGED <<draft, conversation_history, modelCalls, lastResponse,
                       abortStage>>
       \/ /\ ~DraftPromptRaises(plan)
          /\ \E o \in CallOutcomes("draft") :
              LET h1 == _append_to_history(conversation_history, "user", "draft")
                  h2 == IF o.ok THEN _append_to_history(h1, "assistant", "draft")
                        ELSE h1
                  d == WriteDraftResult(o)
              IN  /\ modelCalls' = Append(modelCalls, Call("draft", h1, o))
                  /\ lastResponse' = o
                  /\ conversation_history' = h2
                  /\ draft' = d
                  /\ IF d.len = 0
                     THEN pc' = "aborted" /\ abortStage' = "draft"
                     ELSE pc' = "critique" /\ UNCHANGED abortStage
          /\ UNCHANGED crashAt
    /\ UNCHANGED <<unsplash_key, plan, planPath, title, improved, humanized,
                   with_images, final_content, searchCalls, insertCalls, insertRequests, receipt>>
    /\ UNCHANGED <<mediaVars, dupVars, topicVars, fetchVars, relVars, dataVars>>

\* step_3_self_critique measuring the revision before it is sanitized
SelfCritiqueResult_RawLength(d, o) ==
    IF ~o.ok THEN d
    ELSE IF o.text.len < MinLength THEN d ELSE sanitize_html(o.text)

\* step_3_self_critique, lines 984-1003: the sanitized revision when the call
\* returned and it has at least MinLength characters, else the draft
SelfCritiqueResult(d, o) ==
    IF ~o.ok THEN d
    ELSE LET result == sanitize_html(o.text)
         IN  IF result.len < MinLength THEN d ELSE result

\* step_3_self_critique asking for a longer draft when the revision is short
Step3SelfCritique_Redraft ==
    /\ pc = "critique"
    /\ \E o \in CallOutcomes("critique") :
        LET h1 == _append_to_history(conversation_history, "user", "critique")
            h2 == IF o.ok THEN _append_to_history(h1, "assistant", "critique")
                  ELSE h1
            r == SelfCritiqueResult(draft, o)
        IN  /\ modelCalls' = Append(modelCalls, Call("critique", h1, o))
            /\ lastResponse' = o
            /\ conversation_history' = h2
            /\ improved' = IF r.len = 0 THEN draft ELSE r
            /\ pc' = IF r = draft THEN "draft" ELSE "humanize"
    /\ UNCHANGED <<unsplash_key, plan, planPath, title, draft, humanized,
                   with_images, final_content, searchCalls, insertCalls, insertRequests,
                   receipt, abortStage, crashAt>>
    /\ UNCHANGED <<mediaVars, dupVars, topicVars, fetchVars, relVars, dataVars>>

\* step_3_self_critique sending its prompt alone
Step3SelfCritique_FreshContext ==
    /\ pc = "critique"
    /\ \E o \in CallOutcomes("critique") :
        LET h1 == _append_to_history(conversation_history, "user", "critique")
            h2 == IF o.ok THEN _append_to_history(h1, "assistant", "critique")
                  ELSE h1
            r == SelfCritiqueResult(draft, o)
        IN  /\ modelCalls' = Append(modelCalls,
                   Call("critique", <<[role |-> "user", stage |-> "critique"]>>, o))
            /\ lastResponse' = o
            /\ conversation_history' = h2
            /\ improved' = IF r.len = 0 THEN draft ELSE r
    /\ pc' = "humanize"
    /\ UNCHANGED <<unsplash_key, plan, planPath, title, draft, humanized,
                   with_images, final_content, searchCalls, insertCalls, insertRequests,
                   receipt, abortStage, crashAt>>
    /\ UNCHANGED <<mediaVars, dupVars, topicVars, fetchVars, relVars, dataVars>>

\* step_3_self_critique and run() lines 1293-1295
Step3SelfCritique ==
    /\ pc = "critique"
    /\ \E o \in CallOutcomes("critique") :
        LET h1 == _append_to_history(conversation_history, "user", "critique")
            h2 == IF o.ok THEN _append_to_history(h1, "assistant", "critique")
                  ELSE h1
            r == SelfCritiqueResult(draft, o)
        IN  /\ modelCalls' = Append(modelCalls, Call("critique", h1, o))
            /\ lastResponse' = o
            /\ conversation_history' = h2
            /\ improved' = IF r.len = 0 THEN draft ELSE r
    /\ pc' = "humanize"
    /\ UNCHANGED <<unsplash_key, plan, planPath, title, draft, humanized,
                   with_images, final_content, searchCalls, insertCalls, insertRequests,
                   receipt, abortStage, crashAt>>
    /\ UNCHANGED <<mediaVars, dupVars, topicVars, fetchVars, relVars, dataVars>>

\* step_4_humanize without the length check
HumanizeResult_NoLengthCheck(content, o) ==
    IF ~o.ok THEN content ELSE sanitize_html(o.text)

\* step_4_humanize, lines 1034-1052: the sanitized output when the call
\* returned and it has at least MinLength characters, else the content
HumanizeResult(content, o) ==
    IF ~o.ok THEN content
    ELSE LET result == sanitize_html(o.text)
         IN  IF result.len < MinLength THEN content ELSE result

\* step_4_humanize without its try/except: a raising call ends the run
Step4Humanize_Uncaught ==
    /\ pc = "humanize"
    /\ \E o \in CallOutcomes("humanize") :
        /\ modelCalls' = Append(modelCalls,
               Call("humanize", <<[role |-> "user", stage |-> "humanize"]>>, o))
        /\ lastResponse' = o
        /\ IF o.ok
           THEN /\ humanized' = HumanizeResult(improved, o)
                /\ pc' = "images"
                /\ UNCHANGED crashAt
           ELSE /\ pc' = "crashed"
                /\ crashAt' = "humanize"
                /\ UNCHANGED humanized
    /\ UNCHANGED <<unsplash_key, plan, planPath, title, draft, improved,
                   with_images, final_content, conversation_history,
                   searchCalls, insertCalls, insertRequests, receipt, abortStage>>
    /\ UNCHANGED <<mediaVars, dupVars, topicVars, fetchVars, relVars, dataVars>>

\* step_4_humanize carried out inside the conversation, as step 3 is
Step4Humanize_InConversation ==
    /\ pc = "humanize"
    /\ \E o \in CallOutcomes("humanize") :
        LET h1 == _append_to_history(conversation_history, "user", "humanize")
            h2 == IF o.ok THEN _append_to_history(h1, "assistant", "humanize")
                  ELSE h1
        IN  /\ modelCalls' = Append(modelCalls, Call("humanize", h1, o))
            /\ lastResponse' = o
            /\ conversation_history' = h2
            /\ humanized' = HumanizeResult(improved, o)
    /\ pc' = "images"
    /\ UNCHANGED <<unsplash_key, plan, planPath, title, draft, improved,
                   with_images, final_content,
                   searchCalls, insertCalls, insertRequests, receipt, abortStage, crashAt>>
    /\ UNCHANGED <<mediaVars, dupVars, topicVars, fetchVars, relVars, dataVars>>

\* step_4_humanize: one call whose only message is the humanize prompt; the
\* history is neither sent nor changed
Step4Humanize ==
    /\ pc = "humanize"
    /\ \E o \in CallOutcomes("humanize") :
        /\ modelCalls' = Append(modelCalls,
               Call("humanize", <<[role |-> "user", stage |-> "humanize"]>>, o))
        /\ lastResponse' = o
        /\ humanized' = HumanizeResult(improved, o)
    /\ pc' = "images"
    /\ UNCHANGED <<unsplash_key, plan, planPath, title, draft, improved,
                   with_images, final_content, conversation_history,
                   searchCalls, insertCalls, insertRequests, receipt, abortStage, crashAt>>
    /\ UNCHANGED <<mediaVars, dupVars, topicVars, fetchVars, relVars, dataVars>>

\* what one image search can do: status 200 with a usable body, another
\* status, requests.get raising, a 200 whose body lacks the fields read
SearchOutcomes == {"ok", "status", "exception", "malformed"}

RECURSIVE CountOk(_)
CountOk(os) ==
    IF os = << >> THEN 0
    ELSE (IF os[1] = "ok" THEN 1 ELSE 0) + CountOk(Tail(os))

\* step_5_add_images, lines 1058-1109, on a content with n markers: without
\* a key all n are stripped; with one, each marker is searched and replaced
\* by a figure or by nothing
AddImagesResult(content, key, os) ==
    IF ~key
    THEN [content EXCEPT !.stripped = Len(os)]
    ELSE [content EXCEPT !.images = CountOk(os),
                         !.stripped = Len(os) - CountOk(os)]

\* step_5_add_images searching a second time for a marker whose search failed
Step5AddImages_SearchTwice ==
    /\ pc = "images"
    /\ \E n \in 0..MaxMarkers :
        \E os \in [1..n -> SearchOutcomes] :
            /\ with_images' = AddImagesResult(humanized, unsplash_key, os)
            /\ searchCalls' = IF unsplash_key
                              THEN searchCalls + n + (n - CountOk(os))
                              ELSE searchCalls
    /\ pc' = "links"
    /\ UNCHANGED <<unsplash_key, plan, planPath, title, draft, improved,
                   humanized, final_content, conversation_history, modelCalls, lastResponse,
                   insertCalls, insertRequests, receipt, abortStage, crashAt>>
    /\ UNCHANGED <<mediaVars, dupVars, topicVars, fetchVars, relVars, dataVars>>

Step5AddImages ==
    /\ pc = "images"
    /\ \E n \in 0..MaxMarkers :
        \E os \in [1..n -> SearchOutcomes] :
            /\ with_images' = AddImagesResult(humanized, unsplash_key, os)
            /\ searchCalls' = IF unsplash_key THEN searchCalls + n ELSE searchCalls
    /\ pc' = "links"
    /\ UNCHANGED <<unsplash_key, plan, planPath, title, draft, improved,
                   humanized, final_content, conversation_history, modelCalls, lastResponse,
                   insertCalls, insertRequests, receipt, abortStage, crashAt>>
    /\ UNCHANGED <<mediaVars, dupVars, topicVars, fetchVars, relVars, dataVars>>

\* step_6_add_internal_links, lines 1119-1136: the block is appended when
\* find_related_posts returned anything
AddInternalLinksResult(content, related) ==
    IF related THEN [content EXCEPT !.links = 1] ELSE content

\* run() lines 1304-1311 and step_6_add_internal_links
Step6AddInternalLinks ==
    /\ pc = "links"
    /\ \E related \in BOOLEAN :
        final_content' = AddInternalLinksResult(with_images, related)
    /\ pc' = "publish"
    /\ UNCHANGED <<unsplash_key, plan, planPath, title, draft, improved,
                   humanized, with_images, conversation_history, modelCalls, lastResponse,
                   searchCalls, insertCalls, insertRequests, receipt, abortStage, crashAt>>
    /\ UNCHANGED <<mediaVars, dupVars, topicVars, fetchVars, relVars, dataVars>>

\* what step_7_publish can meet: _get_blogger_service raising, the insert
\* raising, the insert returning the created draft
PublishOutcomes == {"credentials", "insert_failed", "created"}

\* an insert sent with isDraft=False
InsertRequest_Live == [op |-> "insert", isDraft |-> FALSE]

\* lines 1227-1231: the one request step_7_publish sends to the content host
InsertRequest == [op |-> "insert", isDraft |-> TRUE]

\* step_7_publish sending the insert again after a failed one
Step7Publish_Retry ==
    /\ pc = "publish"
    /\ \E o \in PublishOutcomes :
        /\ insertCalls' =
              CASE o = "credentials" -> insertCalls
                [] o = "insert_failed" -> insertCalls + 2
                [] OTHER -> insertCalls + 1
        /\ insertRequests' =
              CASE o = "credentials" -> insertRequests
                [] o = "insert_failed" ->
                      Append(Append(insertRequests, InsertRequest), InsertRequest)
                [] OTHER -> Append(insertRequests, InsertRequest)
        /\ receipt' = IF o = "created" THEN "result" ELSE "None"
    /\ pc' = "done"
    /\ UNCHANGED <<unsplash_key, plan, planPath, title, draft, improved,
                   humanized, with_images, final_content, conversation_history,
                   modelCalls, lastResponse, searchCalls, abortStage, crashAt>>
    /\ UNCHANGED <<mediaVars, dupVars, topicVars, fetchVars, relVars, dataVars>>

\* step_7_publish, lines 1225-1241, and the end of run()
Step7Publish ==
    /\ pc = "publish"
    /\ \E o \in PublishOutcomes :
        /\ insertCalls' = IF o = "credentials" THEN insertCalls ELSE insertCalls + 1
        /\ insertRequests' = IF o = "credentials" THEN insertRequests
                             ELSE Append(insertRequests, InsertRequest)
        /\ receipt' = IF o = "created" THEN "result" ELSE "None"
    /\ pc' = "done"
    /\ UNCHANGED <<unsplash_key, plan, planPath, title, draft, improved,
                   humanized, with_images, final_content, conversation_history,
                   modelCalls, lastResponse, searchCalls, abortStage, crashAt>>
    /\ UNCHANGED <<mediaVars, dupVars, topicVars, fetchVars, relVars, dataVars>>

PipeNext ==
    \/ Step1Plan
    \/ PlanFallback
    \/ CheckPlan
    \/ Step2WriteDraft
    \/ Step3SelfCritique
    \/ Step4Humanize
    \/ Step5AddImages
    \/ Step6AddInternalLinks
    \/ Step7Publish

\* the media resolver and the duplicate check, idle
MediaIdle ==
    /\ mpc = "idle" /\ mKey = FALSE /\ mBody = << >> /\ mContent = << >>
    /\ mMarkers = << >> /\ mIdx = 0 /\ mOutcomes = << >> /\ mQueries = << >>

DupIdle ==
    /\ dpc = "idle" /\ dTitle = << >> /\ dPosts = << >>
    /\ dResult = FALSE

\* the topic selector and the corpus loader, idle
TopicIdle ==
    /\ tpc = "idle" /\ tPosts = << >> /\ tGen = [ok |-> FALSE] /\ tCalls = 0
    /\ tFallbacks = 0 /\ tShuffled = << >> /\ tIdx = 0
    /\ tResult = << >>

FetchIdle ==
    /\ fpc = "idle" /\ blog_id = FALSE /\ fPage = 0 /\ fPosts = << >>
    /\ fFailure = "none" /\ existing_posts = << >> /\ fResult = << >>

RelatedIdle ==
    /\ rpc = "idle" /\ rTitle = << >> /\ rLabels = {} /\ rMax = 0
    /\ rPosts = << >> /\ rResult = << >> /\ rContent = NoneText

\* the values handed from stage to stage, not followed
DataIdle ==
    /\ xpc = "idle" /\ xMode = "" /\ persona = "" /\ system_prompt = << >>
    /\ writing_format = "" /\ tone = "" /\ quirks = << >> /\ xPosts = << >>
    /\ xCategory = "" /\ xTopic = [toks |-> << >>, pad |-> FALSE]
    /\ xTitle = [toks |-> << >>, pad |-> FALSE] /\ xTags = << >>
    /\ xLabels = {}

Init ==
    PipeInit /\ MediaIdle /\ DupIdle /\ TopicIdle /\ FetchIdle /\ RelatedIdle
    /\ DataIdle

Next == PipeNext

Spec == Init /\ [][Next]_vars

\* run() is one sequential thread: while a step is enabled it is taken
FairSpec == Spec /\ WF_vars(Next)

\* run() at its first statement
RunInit ==
    /\ unsplash_key \in BOOLEAN
    /\ pc = "load"
    /\ plan = NonePlan
    /\ planPath = "none"
    /\ title = NoTitle
    /\ draft = NoneText
    /\ improved = NoneText
    /\ humanized = NoneText
    /\ with_images = NoneText
    /\ final_content = NoneText
    /\ conversation_history = << >>
    /\ modelCalls = << >>
    /\ lastResponse = [ok |-> FALSE]
    /\ searchCalls = 0
    /\ insertCalls = 0
    /\ insertRequests = << >>
    /\ receipt = "unset"
    /\ abortStage = "none"
    /\ crashAt = "none"

RunNext ==
    \/ FetchExistingPosts
    \/ Step0GenerateTopic
    \/ Step0TopicFallback
    \/ Step1Plan
    \/ PlanFallback
    \/ CheckPlan
    \/ Step2WriteDraft
    \/ Step3SelfCritique
    \/ Step4Humanize
    \/ Step5AddImages
    \/ Step6AddInternalLinks
    \/ Step7Publish

InitRun ==
    RunInit /\ MediaIdle /\ DupIdle /\ TopicIdle /\ FetchIdle /\ RelatedIdle
    /\ DataIdle

SpecRun == InitRun /\ [][RunNext]_vars

-----------------------------------------------------------------------------
(* Claims about the pipeline *)

\* the planning calls made so far, in order
PlanCalls ==
    SelectSeq(modelCalls, LAMBDA c : c.stage \in {"plan", "plan_fallback"})

StageCalled(stage) == \E i \in 1..Len(modelCalls) : modelCalls[i].stage = stage

RunEnded == pc \in {"aborted", "crashed", "done"}
PublishAttempted == receipt # "unset"

\* C1: once the Draft stage has returned a non-empty body the run reaches the
\* publish attempt, whatever the Critique+Revise stage, the Stylistic pass,
\* the Media Resolver and the related-links step do; a run that ends without a
\* publish attempt ended before the Draft stage returned a body, with no
\* later stage started.
C1_DraftLeadsToPublish ==
    /\ (draft.len > 0) ~> PublishAttempted
    /\ [](RunEnded /\ ~PublishAttempted =>
            /\ draft.len = 0
            /\ ~StageCalled("critique")
            /\ (pc = "aborted" => abortStage \in {"plan", "draft"}))

\* a run in which every later stage degraded and the publish was still attempted
C1_Witness ==
    /\ pc = "done"
    /\ draft.len > 0
    /\ improved = draft
    /\ humanized = improved
    /\ with_images.stripped > 0
    /\ with_images.images = 0
    /\ final_content.links = 0
    /\ PublishAttempted

PlanStageOver ==
    pc \notin {"load", "topic", "topic_fallback", "plan", "plan_fallback"}
CallFailed(c) == c.outcome \in {"raised", "unparsed"}

\* C2: when the structured Plan call raises or its output does not parse, the
\* Plan stage makes exactly one retry, the relaxed call; when that one raises
\* or does not parse either, the stage yields no plan and the run aborts at
\* the Plan stage; the stage never makes more than two model calls.
C2_PlanRetriesOnce ==
    /\ Len(PlanCalls) <= 2
    /\ PlanStageOver =>
        /\ Len(PlanCalls) >= 1
        /\ PlanCalls[1].stage = "plan"
        /\ CallFailed(PlanCalls[1]) =>
              /\ Len(PlanCalls) = 2
              /\ PlanCalls[2].stage = "plan_fallback"
        /\ (Len(PlanCalls) = 2 /\ CallFailed(PlanCalls[2])) =>
              /\ plan = NonePlan
              /\ \/ pc = "check_plan"
                 \/ pc = "aborted" /\ abortStage = "plan"
              /\ ~StageCalled("draft")

\* both planning calls failed and the run aborted
C2_Witness ==
    /\ pc = "aborted"
    /\ abortStage = "plan"
    /\ Len(PlanCalls) = 2
    /\ PlanCalls[1].outcome = "raised"
    /\ PlanCalls[2].outcome = "unparsed"

PlanFailedTwice ==
    /\ PlanStageOver
    /\ Len(PlanCalls) = 2
    /\ CallFailed(PlanCalls[2])

DraftFailed == StageCalled("draft") /\ draft.len = 0

NoLaterStage ==
    /\ ~StageCalled("critique")
    /\ ~StageCalled("humanize")
    /\ improved = NoneText
    /\ humanized = NoneText
    /\ with_images = NoneText
    /\ final_content = NoneText
    /\ searchCalls = 0
    /\ insertCalls = 0
    /\ receipt = "unset"

\* C3: a hard abort produces no draft: when the Plan stage failed on both
\* attempts, or the Draft stage failed (the call raised, or the body is
\* empty), no later stage runs and the publish insert is never called.
C3_AbortPublishesNothing ==
    /\ (PlanFailedTwice \/ DraftFailed) =>
          /\ pc \in {"check_plan", "aborted"}
          /\ NoLaterStage
    /\ pc = "aborted" => NoLaterStage

\* the Draft call returned a text that sanitizes to nothing and the run aborted
C3_Witness ==
    /\ pc = "aborted"
    /\ abortStage = "draft"
    /\ lastResponse.ok
    /\ draft = EmptyText

HumanizeReturned == pc \in {"images", "links", "publish", "done"}

\* C4: Stylistic pass: when the model call fails, or the raw output is shorter
\* than MinLength, the stage returns exactly its input; an output is accepted
\* only when its sanitized length is at least MinLength.
C4_HumanizeKeepsInput ==
    HumanizeReturned =>
        /\ (~lastResponse.ok \/ lastResponse.text.len < MinLength) =>
              humanized = improved
        /\ humanized # improved =>
              /\ lastResponse.ok
              /\ lastResponse.text.len - lastResponse.text.junk >= MinLength
              /\ humanized.by = "humanize"
              /\ humanized.len = lastResponse.text.len - lastResponse.text.junk

\* the pass returned a non-empty text under MinLength and the input was kept
C4_Witness ==
    /\ pc = "images"
    /\ lastResponse.ok
    /\ lastResponse.text.len > 0
    /\ lastResponse.text.len < MinLength
    /\ humanized = improved
    /\ improved.by = "critique"

\* C5: Critique+Revise: when the model call fails, or the revised (sanitized)
\* output is shorter than MinLength, the stage returns the draft it was given,
\* unchanged; otherwise it returns the revised text.
C5_CritiqueKeepsDraft ==
    pc = "humanize" =>
        IF ~lastResponse.ok
           \/ lastResponse.text.len - lastResponse.text.junk < MinLength
        THEN improved = draft
        ELSE /\ improved.by = "critique"
             /\ improved.len = lastResponse.text.len - lastResponse.text.junk
             /\ improved.images = 0 /\ improved.stripped = 0 /\ improved.links = 0

\* the revision had MinLength raw characters, fewer once sanitized, and the
\* draft was kept
C5_Witness ==
    /\ pc = "humanize"
    /\ lastResponse.ok
    /\ lastResponse.text.len >= MinLength
    /\ lastResponse.text.len - lastResponse.text.junk < MinLength
    /\ improved = draft

\* C16: every plan handed to the Draft stage, from the structured call or
\* from the relaxed retry, carries at least 2 media queries: a parsed plan
\* with fewer has them replaced by the 2 default queries first.
C16_PlanHasTwoQueries ==
    pc = "draft" =>
        /\ "image_queries" \notin plan.missing
        /\ plan.nq >= 2

\* C17: every request the run sends to the content host is an insert with
\* the draft flag set; no request that publishes a post live is sent.
C17_InsertIsAlwaysDraft ==
    \A i \in 1..Len(insertRequests) :
        insertRequests[i].op = "insert" /\ insertRequests[i].isDraft

\* a run whose insert created the post
C17_Witness ==
    /\ pc = "done"
    /\ receipt = "result"
    /\ insertRequests = <<InsertRequest>>

\* C18: a run makes at most one insert call; a failed insert is not tried
\* again, and nothing follows it.
C18_SingleInsert ==
    /\ insertCalls <= 1
    /\ Len(insertRequests) = insertCalls
    /\ (PublishAttempted => pc = "done")

\* a run whose only insert failed
C18_Witness ==
    /\ pc = "done"
    /\ receipt = "None"
    /\ insertCalls = 1
    /\ Len(insertRequests) = 1

\* C19: a run whose publish failed (no credentials, or the insert raised) does
\* not end in the state in which a run whose draft was created ends.
C19_FailedPublishSurfaced ==
    (PublishAttempted /\ receipt = "None") => pc # "done"

UserMessage(stage) == [role |-> "user", stage |-> stage]
AssistantMessage(stage) == [role |-> "assistant", stage |-> stage]

\* C24: the call of the stylistic pass is sent exactly one user message, its
\* own prompt built from the current document, and none of the conversation;
\* the pass leaves the conversation history as it was, whether its call
\* returned or raised.
C24_HumanizeFreshContext ==
    /\ [](\A k \in 1..Len(modelCalls) :
            modelCalls[k].stage = "humanize" =>
                modelCalls[k].messages = <<UserMessage("humanize")>>)
    /\ [][pc = "humanize" => conversation_history' = conversation_history]_vars

\* the pass has failed after a conversation of three answered calls
C24_Witness ==
    /\ pc = "images"
    /\ modelCalls[Len(modelCalls)].stage = "humanize"
    /\ modelCalls[Len(modelCalls)].outcome = "raised"
    /\ Len(conversation_history) = 6
    /\ humanized = improved

\* the places of run() in the order of its text; the retries stand inside
\* the stage they belong to
PipelineOrder ==
    <<"load", "topic", "topic_fallback", "plan", "plan_fallback", "check_plan",
      "draft", "critique", "humanize", "images", "links", "publish">>

\* the rank of a place; a run that has ended ranks after every place
Position(p) ==
    IF \E k \in 1..Len(PipelineOrder) : PipelineOrder[k] = p
    THEN CHOOSE k \in 1..Len(PipelineOrder) : PipelineOrder[k] = p
    ELSE Len(PipelineOrder) + 1

\* C25: the components run strictly forward, load corpus, select topic,
\* plan, draft, critique, stylistic pass, media, related links, publish: every
\* step moves to a later place, so none runs again once a later one has
\* started, the fallback of the topic selector and the relaxed retry of the
\* plan are each taken at most once and inside their own stage, and the
\* model calls made are in that order, at most one per place.
C25_StrictlyForward ==
    /\ [][Position(pc') > Position(pc)]_vars
    /\ [](\A k, l \in 1..Len(modelCalls) :
            k < l => Position(modelCalls[k].stage) < Position(modelCalls[l].stage))

\* a run that used the relaxed retry and went through every component
C25_Witness ==
    /\ pc = "done"
    /\ receipt = "result"
    /\ planPath = "fallback"
    /\ Len(modelCalls) = 6
    /\ searchCalls > 0

\* the stages that carry the conversation
ConversationStages == {"plan", "plan_fallback", "draft", "critique"}

\* the prompts and responses of the first n calls that belong to the
\* conversation stages
RECURSIVE ExchangeOf(_, _)
ExchangeOf(calls, n) ==
    IF n = 0 THEN << >>
    ELSE LET c == calls[n]
         IN  IF c.stage \notin ConversationStages THEN ExchangeOf(calls, n - 1)
             ELSE ExchangeOf(calls, n - 1) \o <<UserMessage(c.stage)>>
                  \o (IF c.outcome = "raised" THEN << >>
                      ELSE <<AssistantMessage(c.stage)>>)

\* the same, counted from the relaxed plan retry when there was one
RECURSIVE ExchangeSinceReset(_, _)
ExchangeSinceReset(calls, n) ==
    IF n = 0 THEN << >>
    ELSE LET c == calls[n]
         IN  IF c.stage \notin ConversationStages
             THEN ExchangeSinceReset(calls, n - 1)
             ELSE (IF c.stage = "plan_fallback" THEN << >>
                   ELSE ExchangeSinceReset(calls, n - 1))
                  \o <<UserMessage(c.stage)>>
                  \o (IF c.outcome = "raised" THEN << >>
                      ELSE <<AssistantMessage(c.stage)>>)

NoTopicMessage(messages) ==
    \A i \in 1..Len(messages) : messages[i].stage # "topic"

\* C26 as claimed: every call of the plan, draft and critique stages is sent
\* every earlier prompt and response of these stages followed by its own
\* prompt, and nothing of the topic call.
C26_FullExchangeSent ==
    \A k \in 1..Len(modelCalls) :
        modelCalls[k].stage \in ConversationStages =>
            /\ modelCalls[k].messages =
                  ExchangeOf(modelCalls, k - 1) \o <<UserMessage(modelCalls[k].stage)>>
            /\ NoTopicMessage(modelCalls[k].messages)

\* C26 amended: every call of the plan, draft and critique stages is sent the
\* exchange accumulated since the history was last reset followed by its own
\* prompt: the relaxed plan retry resets the history and is sent its own
\* prompt alone, and the calls after it are sent the exchange from the retry
\* on. Nothing of the topic call is sent.
C26_ExchangeSinceResetSent ==
    \A k \in 1..Len(modelCalls) :
        modelCalls[k].stage \in ConversationStages =>
            /\ modelCalls[k].messages =
                  (IF modelCalls[k].stage = "plan_fallback" THEN << >>
                   ELSE ExchangeSinceReset(modelCalls, k - 1))
                  \o <<UserMessage(modelCalls[k].stage)>>
            /\ NoTopicMessage(modelCalls[k].messages)

\* the critique call after a structured plan that did not parse, a relaxed
\* retry and a draft: it is sent the retry and the draft, not the structured
\* attempt
C26_Witness ==
    /\ pc = "humanize"
    /\ Len(modelCalls) = 5
    /\ modelCalls[1].outcome = "returned"
    /\ modelCalls[2].outcome = "unparsed"
    /\ modelCalls[3].stage = "plan_fallback"
    /\ modelCalls[5].stage = "critique"
    /\ Len(modelCalls[5].messages) = 5

\* the number of model calls a stage has made
CallsOf(stage) == Len(SelectSeq(modelCalls, LAMBDA c : c.stage = stage))

\* the marker occurrences the media resolver has dealt with
MarkersResolved == with_images.images + with_images.stripped

CallsWithinPolicy ==
    /\ CallsOf("topic") <= 1
    /\ CallsOf("plan") <= 1
    /\ CallsOf("plan_fallback") <= 1
    /\ CallsOf("draft") <= 1
    /\ CallsOf("critique") <= 1
    /\ CallsOf("humanize") <= 1
    /\ Len(modelCalls) <= 6
    /\ insertCalls <= 1

\* C32 as claimed: a run makes at most 1 topic call, 2 plan calls, 1 draft,
\* 1 critique and 1 stylistic call, 6 model calls in all, at most 1 publish
\* insert, and exactly one image search per marker occurrence.
C32_OneSearchPerMarker ==
    /\ CallsWithinPolicy
    /\ searchCalls = MarkersResolved

\* C32 amended: the same bounds on the model calls and on the publish
\* insert; with a search key exactly one image search per marker occurrence,
\* without one no search at all.
C32_BoundedCalls ==
    /\ CallsWithinPolicy
    /\ searchCalls = IF unsplash_key THEN MarkersResolved ELSE 0

\* a run that made every call the policy allows: six model calls, a search
\* for each of two markers, of which one failed, and one insert
C32_Witness ==
    /\ pc = "done"
    /\ unsplash_key
    /\ Len(modelCalls) = 6
    /\ searchCalls = 2
    /\ with_images.stripped = 1
    /\ insertCalls = 1

Alternates(messages) ==
    \A i \in 1..Len(messages) :
        messages[i].role = IF i % 2 = 1 THEN "user" ELSE "assistant"

\* C33: every message list sent from the conversation history starts with a
\* user message, alternates user and assistant, and ends with the prompt of
\* the stage that sends it, whatever the earlier calls did.
C33_HistoryWellFormed ==
    \A k \in 1..Len(modelCalls) :
        modelCalls[k].stage \in ConversationStages =>
            /\ modelCalls[k].messages # << >>
            /\ Alternates(modelCalls[k].messages)
            /\ modelCalls[k].messages[Len(modelCalls[k].messages)]
                  = UserMessage(modelCalls[k].stage)

\* the structured plan call raised and left its prompt unanswered; the
\* critique call made after the relaxed retry and the draft alternates
C33_Witness ==
    /\ pc = "humanize"
    /\ Len(modelCalls) = 4
    /\ modelCalls[1].stage = "plan"
    /\ modelCalls[1].outcome = "raised"
    /\ modelCalls[4].stage = "critique"
    /\ Len(modelCalls[4].messages) = 5

\* C34: whatever the model and the external calls answer, run() returns: it
\* ends in a reported plan or draft abort or after the publish attempt,
\* never in an uncaught exception.
C34_RunReturnsNormally ==
    /\ pc # "crashed"
    /\ crashAt = "none"
    /\ RunEnded =>
          \/ pc = "aborted" /\ abortStage \in {"plan", "draft"}
          \/ pc = "done" /\ PublishAttempted

\* C29: a plan is handed to the draft stage only with every required field,
\* and a structured plan that lacks one is not kept: the relaxed retry is
\* made instead.
C29_PlanValidated ==
    /\ pc = "draft" => (plan.kind = "object" /\ plan.missing = {})
    /\ (pc = "check_plan" /\ planPath = "structured") => plan.missing = {}

-----------------------------------------------------------------------------
(* step_5_add_images on characters. A text is a sequence of characters; the *)
(* constant markup of a figure is carried by two tokens that hold no        *)
(* bracket and no newline of their own.                                     *)

\* most pieces a body is built from
MaxPieces == 4

OpenLiteral == <<"[", "I", "M", "A", "G", "E", ":">>

\* what bodies are built from: the markers "[IMAGE:a]" and "[IMAGE: b]", the
\* marker "[IMAGE: ]" whose description is blank, the first marker cut in two
\* ("[IMA" and "GE:a]"), a closing bracket, a letter, a newline
Pieces ==
    { <<"[", "I", "M", "A", "G", "E", ":", "a", "]">>,
      <<"[", "I", "M", "A", "G", "E", ":", " ", "b", "]">>,
      <<"[", "I", "M", "A", "G", "E", ":", " ", "]">>,
      <<"[", "I", "M", "A">>,
      <<"G", "E", ":", "a", "]">>,
      <<"]">>,
      <<"a">>,
      <<"\n">> }

RECURSIVE Concat(_)
Concat(ps) == IF ps = << >> THEN << >> ELSE Head(ps) \o Concat(Tail(ps))

Bodies ==
    { Concat(ps) : ps \in UNION { [1..n -> Pieces] : n \in 0..MaxPieces } }

\* s has lit at position i
OccursAt(s, lit, i) ==
    /\ i >= 1
    /\ i + Len(lit) - 1 <= Len(s)
    /\ SubSeq(s, i, i + Len(lit) - 1) = lit

\* the regular expression \[IMAGE:.*?\] tried at position i: the position of
\* the first "]" after the literal with no newline before it, 0 for no match
RECURSIVE ScanClose(_, _)
ScanClose(s, j) ==
    IF j > Len(s) THEN 0
    ELSE IF s[j] = "]" THEN j
    ELSE IF s[j] = "\n" THEN 0
    ELSE ScanClose(s, j + 1)

MatchEnd(s, i) ==
    IF OccursAt(s, OpenLiteral, i) THEN ScanClose(s, i + Len(OpenLiteral)) ELSE 0

\* re.findall(r'\[IMAGE:.*?\]', s): the matches left to right, none
\* overlapping
RECURSIVE FindAllFrom(_, _)
FindAllFrom(s, i) ==
    IF i > Len(s) THEN << >>
    ELSE LET e == MatchEnd(s, i)
         IN  IF e = 0 THEN FindAllFrom(s, i + 1)
             ELSE <<SubSeq(s, i, e)>> \o FindAllFrom(s, e + 1)

FindAll(s) == FindAllFrom(s, 1)

\* re.sub with count=1: only the first match dropped
RECURSIVE ReSub_FirstOnlyFrom(_, _)
ReSub_FirstOnlyFrom(s, i) ==
    IF i > Len(s) THEN << >>
    ELSE LET e == MatchEnd(s, i)
         IN  IF e = 0 THEN <<s[i]>> \o ReSub_FirstOnlyFrom(s, i + 1)
             ELSE SubSeq(s, e + 1, Len(s))

ReSub_FirstOnly(s) == ReSub_FirstOnlyFrom(s, 1)

\* re.sub(r'\[IMAGE:.*?\]', '', s): one pass, every match dropped
RECURSIVE ReSubFrom(_, _)
ReSubFrom(s, i) ==
    IF i > Len(s) THEN << >>
    ELSE LET e == MatchEnd(s, i)
         IN  IF e = 0 THEN <<s[i]>> \o ReSubFrom(s, i + 1)
             ELSE ReSubFrom(s, e + 1)

ReSub(s) == ReSubFrom(s, 1)

\* str.find: the first position of old in s from i on, 0 when there is none
RECURSIVE Find(_, _, _)
Find(s, old, i) ==
    IF i + Len(old) - 1 > Len(s) THEN 0
    ELSE IF OccursAt(s, old, i) THEN i
    ELSE Find(s, old, i + 1)

\* s.replace(old, new, 1)
ReplaceFirst(s, old, new) ==
    LET i == Find(s, old, 1)
    IN  IF i = 0 THEN s
        ELSE SubSeq(s, 1, i - 1) \o new \o SubSeq(s, i + Len(old), Len(s))

\* s.replace(old, new): every occurrence, left to right, none overlapping
RECURSIVE ReplaceAllFrom(_, _, _, _)
ReplaceAllFrom(s, old, new, i) ==
    IF i > Len(s) THEN << >>
    ELSE IF OccursAt(s, old, i)
         THEN new \o ReplaceAllFrom(s, old, new, i + Len(old))
         ELSE <<s[i]>> \o ReplaceAllFrom(s, old, new, i + 1)

ReplaceAll(s, old, new) == ReplaceAllFrom(s, old, new, 1)

Whitespace == {" ", "\n"}

\* str.strip()
RECURSIVE LStrip(_)
LStrip(s) ==
    IF s # << >> /\ Head(s) \in Whitespace THEN LStrip(Tail(s)) ELSE s

RECURSIVE RStrip(_)
RStrip(s) ==
    IF s # << >> /\ s[Len(s)] \in Whitespace
    THEN RStrip(SubSeq(s, 1, Len(s) - 1))
    ELSE s

Strip(s) == RStrip(LStrip(s))

\* line 1065: the query of a marker
Query(marker) ==
    Strip(ReplaceAll(ReplaceAll(marker, OpenLiteral, << >>), <<"]">>, << >>))

\* lines 1089-1099: the figure markup around the query
Figure(query) ==
    <<"\n", "<figure><img alt=">> \o query \o <<"\n", "</figure>", "\n">>

\* lines 1079-1107: what replaces the marker after a search
Replacement(query, o) == IF o = "ok" THEN Figure(query) ELSE << >>

PipeIdle ==
    /\ unsplash_key = FALSE
    /\ pc = "idle"
    /\ plan = NonePlan
    /\ planPath = "none"
    /\ title = NoTitle
    /\ draft = NoneText
    /\ improved = NoneText
    /\ humanized = NoneText
    /\ with_images = NoneText
    /\ final_content = NoneText
    /\ conversation_history = << >>
    /\ modelCalls = << >>
    /\ lastResponse = [ok |-> FALSE]
    /\ searchCalls = 0
    /\ insertCalls = 0
    /\ insertRequests = << >>
    /\ receipt = "unset"
    /\ abortStage = "none"
    /\ crashAt = "none"

MediaInit ==
    /\ mpc = "start"
    /\ mKey \in BOOLEAN
    /\ mBody \in Bodies
    /\ mContent = mBody
    /\ mMarkers = << >>
    /\ mIdx = 0
    /\ mOutcomes = << >>
    /\ mQueries = << >>

\* lines 1058-1060: no key, every match stripped, no search made
AddImagesNoKey ==
    /\ mpc = "start"
    /\ ~mKey
    /\ mContent' = ReSub(mContent)
    /\ mpc' = "done"
    /\ UNCHANGED <<mKey, mBody, mMarkers, mIdx, mOutcomes, mQueries>>
    /\ UNCHANGED <<pipeVars, dupVars, topicVars, fetchVars, relVars, dataVars>>

\* line 1062: the markers are collected once, before any is resolved
AddImagesFindMarkers ==
    /\ mpc = "start"
    /\ mKey
    /\ mMarkers' = FindAll(mContent)
    /\ mIdx' = 1
    /\ mpc' = "loop"
    /\ UNCHANGED <<mKey, mBody, mContent, mOutcomes, mQueries>>
    /\ UNCHANGED <<pipeVars, dupVars, topicVars, fetchVars, relVars, dataVars>>

\* lines 1064-1107: one turn of the loop: the search for the marker, and the
\* first occurrence of the marker's text in the content replaced
AddImagesResolveMarker ==
    /\ mpc = "loop"
    /\ mIdx <= Len(mMarkers)
    /\ \E o \in SearchOutcomes :
        LET marker == mMarkers[mIdx]
            query == Query(marker)
        IN  /\ mQueries' = Append(mQueries, query)
            /\ mOutcomes' = Append(mOutcomes, o)
            /\ mContent' = ReplaceFirst(mContent, marker, Replacement(query, o))
    /\ mIdx' = mIdx + 1
    /\ UNCHANGED <<mpc, mKey, mBody, mMarkers>>
    /\ UNCHANGED <<pipeVars, dupVars, topicVars, fetchVars, relVars, dataVars>>

\* line 1109
AddImagesReturn ==
    /\ mpc = "loop"
    /\ mIdx > Len(mMarkers)
    /\ mpc' = "done"
    /\ UNCHANGED <<mKey, mBody, mContent, mMarkers, mIdx, mOutcomes, mQueries>>
    /\ UNCHANGED <<pipeVars, dupVars, topicVars, fetchVars, relVars, dataVars>>

MediaNext ==
    \/ AddImagesNoKey
    \/ AddImagesFindMarkers
    \/ AddImagesResolveMarker
    \/ AddImagesReturn

InitMedia ==
    PipeIdle /\ MediaInit /\ DupIdle /\ TopicIdle /\ FetchIdle /\ RelatedIdle
    /\ DataIdle

SpecMedia == InitMedia /\ [][MediaNext]_vars

-----------------------------------------------------------------------------
(* Claims about the media resolver *)

\* the body with every match resolved where it stands: a figure for an "ok"
\* search, nothing for a failed one, the text around the matches untouched
RECURSIVE ResolveInPlace(_, _, _)
ResolveInPlace(s, i, os) ==
    IF i > Len(s) THEN << >>
    ELSE LET e == MatchEnd(s, i)
         IN  IF e = 0 THEN <<s[i]>> \o ResolveInPlace(s, i + 1, os)
             ELSE Replacement(Query(SubSeq(s, i, e)), Head(os))
                  \o ResolveInPlace(s, e + 1, Tail(os))

RECURSIVE TotalLen(_)
TotalLen(ss) == IF ss = << >> THEN 0 ELSE Len(Head(ss)) + TotalLen(Tail(ss))

\* C6: whatever the body and the outcomes of the searches, with or without a
\* search key, the body the Media Resolver returns holds no match of the
\* marker pattern.
C6_NoMarkerLeft ==
    mpc = "done" => FindAll(mContent) = << >>

\* C7: when the search for a marker fails (another status, an exception, a
\* malformed response) that occurrence is removed with nothing in its place
\* and the other markers are still resolved where they stand.
C7_FailedMarkerRemoved ==
    (/\ mpc = "done"
     /\ mKey
     /\ \E k \in 1..Len(mOutcomes) : mOutcomes[k] # "ok")
    => mContent = ResolveInPlace(mBody, 1, mOutcomes)

\* C8: the Media Resolver never raises; without a search key it makes no
\* search and returns the body with every marker stripped and all other text
\* unchanged.
C8_NoKeyStripsMarkers ==
    /\ mpc \in {"idle", "start", "loop", "done"}
    /\ ~mKey => mOutcomes = << >> /\ mQueries = << >>
    /\ (mpc = "done" /\ ~mKey) =>
          LET ms == FindAll(mBody)
          IN  /\ mContent = ResolveInPlace(mBody, 1, [k \in 1..Len(ms) |-> "status"])
              /\ Len(mContent) = Len(mBody) - TotalLen(ms)

\* two markers stripped without a key, the text between them kept
C8_Witness ==
    /\ mpc = "done"
    /\ ~mKey
    /\ Len(FindAll(mBody)) = 2
    /\ mContent = <<"a", "\n">>
    /\ mOutcomes = << >>

\* the k-th marker occurrence of the body
Occurrence(k) == FindAll(mBody)[k]

\* C27: with a search key, a body with n marker occurrences gets exactly n
\* searches, the k-th with the description of the k-th occurrence (the same
\* description is searched again), and the k-th result stands where the k-th
\* occurrence stood, the text around the occurrences as it was.
C27_ResolvedOneToOneInPlace ==
    (mpc = "done" /\ mKey) =>
        /\ Len(mQueries) = Len(FindAll(mBody))
        /\ Len(mOutcomes) = Len(FindAll(mBody))
        /\ \A k \in 1..Len(mQueries) : mQueries[k] = Query(Occurrence(k))
        /\ mContent = ResolveInPlace(mBody, 1, mOutcomes)

\* the description a marker embeds: the text between "[IMAGE:" and "]",
\* stripped
Description(marker) ==
    Strip(SubSeq(marker, Len(OpenLiteral) + 1, Len(marker) - 1))

\* C28: a marker whose description is blank is searched with a keyword, not
\* with the empty text; every other marker is searched with its description.
C28_BlankDescriptionGetsKeyword ==
    \A k \in 1..Len(mQueries) :
        IF Description(mMarkers[k]) = << >>
        THEN mQueries[k] # << >>
        ELSE mQueries[k] = Description(mMarkers[k])

-----------------------------------------------------------------------------
(* is_duplicate. A title is a sequence of tokens separated by single        *)
(* spaces, with or without blanks around it. A token is a keyword (an        *)
(* alphabetic word of more than 2 letters outside the stop list), a stop     *)
(* word, a short alphabetic word, or a token with no letter in it; an        *)
(* alphabetic token is capitalised or lower case.                            *)

\* distinct keywords titles are written with
NumKeywords == 10
\* where the second family of keyword runs starts, after this many keywords
KeywordShift == 3
\* most articles in the corpus
MaxCorpus == 2

Keyword(i, cap) == [kind |-> "kw", id |-> i, cap |-> cap]
StopWord(cap) == [kind |-> "stop", id |-> 0, cap |-> cap]
ShortWord(cap) == [kind |-> "short", id |-> 0, cap |-> cap]
NoLetters == [kind |-> "other", id |-> 0, cap |-> FALSE]

\* the keywords lo..hi in order
KeywordRun(lo, hi, cap) == [k \in 1..(hi - lo + 1) |-> Keyword(lo + k - 1, cap)]

Runs ==
    { <<1, b>> : b \in 0..NumKeywords } \cup { <<KeywordShift + 1, NumKeywords>> }

\* the titles of the model: a stop word, a run of keywords, a short word and
\* a token without letters, either capitalised with blanks around the title
\* or in lower case with none; and the title made of one stop word
Titles ==
    { [toks |-> <<StopWord(c)>> \o KeywordRun(r[1], r[2], c)
                \o <<ShortWord(c), NoLetters>>,
       pad |-> c] : r \in Runs, c \in BOOLEAN }
    \cup { [toks |-> <<StopWord(FALSE)>>, pad |-> FALSE] }

\* str.lower() of one token
LowerToken(t) == [t EXCEPT !.cap = FALSE]

\* title.lower().strip()
LowerStrip(t) ==
    [toks |-> [k \in 1..Len(t.toks) |-> LowerToken(t.toks[k])], pad |-> FALSE]

\* the stop_words of is_duplicate, lines 542-547
stop_words == {StopWord(FALSE)}

\* len(w)
WordLen(w) ==
    CASE w.kind = "kw" -> 5
      [] w.kind = "stop" -> 3
      [] w.kind = "short" -> 2
      [] OTHER -> 0

\* re.findall(r'[a-z]+', t.lower()): the alphabetic tokens, in lower case
Words(t) ==
    SelectSeq(LowerStrip(t).toks, LAMBDA w : w.kind # "other")

\* extract_keywords, lines 549-551
extract_keywords(t) ==
    { w \in { Words(t)[k] : k \in 1..Len(Words(t)) } :
        w \notin stop_words /\ WordLen(w) > 2 }

Max(a, b) == IF a >= b THEN a ELSE b

\* the threshold test written with > in place of >=
TooSimilar_Strict(new_keywords, existing_keywords) ==
    /\ existing_keywords # {}
    /\ new_keywords # {}
    /\ 10 * Cardinality(new_keywords \cap existing_keywords)
          > 7 * Max(Cardinality(new_keywords), Cardinality(existing_keywords))

\* lines 564-567: both keyword sets non-empty and overlap / max >= 0.7
TooSimilar(new_keywords, existing_keywords) ==
    /\ existing_keywords # {}
    /\ new_keywords # {}
    /\ 10 * Cardinality(new_keywords \cap existing_keywords)
          >= 7 * Max(Cardinality(new_keywords), Cardinality(existing_keywords))

\* lines 555-571: the loop over the corpus from article i on
RECURSIVE DuplicateFrom(_, _, _)
DuplicateFrom(t, posts, i) ==
    IF i > Len(posts) THEN FALSE
    ELSE IF LowerStrip(t) = LowerStrip(posts[i]) THEN TRUE
    ELSE IF TooSimilar(extract_keywords(t), extract_keywords(posts[i])) THEN TRUE
    ELSE DuplicateFrom(t, posts, i + 1)

\* is_duplicate without the exact-match test of lines 559-560
is_duplicate_NoExactMatch(t, posts) ==
    \E i \in 1..Len(posts) :
        TooSimilar(extract_keywords(t), extract_keywords(posts[i]))

\* is_duplicate, lines 532-571
is_duplicate(t, posts) ==
    IF posts = << >> THEN FALSE ELSE DuplicateFrom(t, posts, 1)

\* the division of line 566 made without the test of line 564
DividesByZero_Unguarded(new_keywords, existing_keywords) ==
    Max(Cardinality(new_keywords), Cardinality(existing_keywords)) = 0

\* lines 564-566: overlap / max(...) raises ZeroDivisionError when it is
\* evaluated with both keyword sets empty; line 564 lets it be evaluated only
\* when both are non-empty
DividesByZero(new_keywords, existing_keywords) ==
    /\ existing_keywords # {}
    /\ new_keywords # {}
    /\ Max(Cardinality(new_keywords), Cardinality(existing_keywords)) = 0

\* lines 555-571: the loop from article i on ends in an exception
RECURSIVE RaisesFrom(_, _, _)
RaisesFrom(t, posts, i) ==
    IF i > Len(posts) THEN FALSE
    ELSE IF LowerStrip(t) = LowerStrip(posts[i]) THEN FALSE
    ELSE IF DividesByZero(extract_keywords(t), extract_keywords(posts[i])) THEN TRUE
    ELSE IF TooSimilar(extract_keywords(t), extract_keywords(posts[i])) THEN FALSE
    ELSE RaisesFrom(t, posts, i + 1)

\* is_duplicate raises instead of returning
is_duplicate_raises(t, posts) ==
    IF posts = << >> THEN FALSE ELSE RaisesFrom(t, posts, 1)

\* the titles of the corpus articles: the capitalised titles and the title
\* made of one stop word
CorpusTitles == { t \in Titles : t.pad \/ Len(t.toks) = 1 }

DupInit ==
    /\ dpc = "start"
    /\ dTitle \in Titles
    /\ dPosts \in UNION { [1..n -> CorpusTitles] : n \in 0..MaxCorpus }
    /\ dResult = FALSE

IsDuplicate ==
    /\ dpc = "start"
    /\ IF is_duplicate_raises(dTitle, dPosts)
       THEN dpc' = "raised" /\ UNCHANGED dResult
       ELSE dpc' = "done" /\ dResult' = is_duplicate(dTitle, dPosts)
    /\ UNCHANGED <<dTitle, dPosts>>
    /\ UNCHANGED <<pipeVars, mediaVars, topicVars, fetchVars, relVars, dataVars>>

InitDup ==
    PipeIdle /\ MediaIdle /\ DupInit /\ TopicIdle /\ FetchIdle /\ RelatedIdle
    /\ DataIdle

SpecDup == InitDup /\ [][IsDuplicate]_vars

-----------------------------------------------------------------------------
(* Claims about is_duplicate *)

\* the normalized keyword set of a title, read off its tokens
KeywordIds(t) ==
    { t.toks[k].id : k \in { j \in 1..Len(t.toks) : t.toks[j].kind = "kw" } }

\* |A \cap B| / max(|A|, |B|) >= 0.70
OverlapAtLeast70(A, B) ==
    10 * Cardinality(A \cap B) >= 7 * Max(Cardinality(A), Cardinality(B))

\* C9: with non-empty keyword sets, is_duplicate is true when the overlap
\* |A \cap B| / max(|A|,|B|) is at least 0.70 for some corpus article (0.70
\* itself included) and false when it is below 0.70 for every corpus article.
C9_OverlapThreshold ==
    dpc = "done" =>
        LET A == KeywordIds(dTitle)
            B(i) == KeywordIds(dPosts[i])
        IN  /\ (/\ A # {}
                /\ \E i \in 1..Len(dPosts) :
                      B(i) # {} /\ OverlapAtLeast70(A, B(i)))
               => dResult
            /\ (/\ A # {}
                /\ \A i \in 1..Len(dPosts) :
                      B(i) # {} /\ ~OverlapAtLeast70(A, B(i)))
               => ~dResult

\* an overlap of exactly 0.70 with the only corpus article, found duplicate
C9_Witness ==
    /\ dpc = "done"
    /\ Len(dPosts) = 1
    /\ KeywordIds(dTitle) # {}
    /\ 10 * Cardinality(KeywordIds(dTitle) \cap KeywordIds(dPosts[1]))
          = 7 * Max(Cardinality(KeywordIds(dTitle)),
                    Cardinality(KeywordIds(dPosts[1])))
    /\ dResult

\* C10: is_duplicate of a title against a corpus that holds the same title is
\* true, also for a title with no keyword and whatever articles precede it.
C10_SameTitleIsDuplicate ==
    (dpc = "done" /\ \E i \in 1..Len(dPosts) : dPosts[i] = dTitle) => dResult

\* a title with no keyword, found duplicate of the second corpus article
C10_Witness ==
    /\ dpc = "done"
    /\ KeywordIds(dTitle) = {}
    /\ dTitle.toks # << >>
    /\ Len(dPosts) = 2
    /\ dPosts[1] # dTitle
    /\ KeywordIds(dPosts[1]) # {}
    /\ dPosts[2] = dTitle
    /\ dResult

\* the two titles are the same string once lowered and stripped
SameNormalizedTitle(a, b) ==
    /\ Len(a.toks) = Len(b.toks)
    /\ \A k \in 1..Len(a.toks) :
          a.toks[k].kind = b.toks[k].kind /\ a.toks[k].id = b.toks[k].id

\* C12: is_duplicate never raises; an empty corpus gives false; a pair in
\* which the title's or the article's keyword set is empty counts as a
\* duplicate only when the two titles match exactly, so a true result comes
\* from an exact match or from a pair with two non-empty keyword sets.
C12_EmptyKeywordsNotDuplicate ==
    /\ dpc # "raised"
    /\ dpc = "done" =>
        /\ (dPosts = << >> => ~dResult)
        /\ (dResult =>
              \E i \in 1..Len(dPosts) :
                  \/ SameNormalizedTitle(dTitle, dPosts[i])
                  \/ (KeywordIds(dTitle) # {} /\ KeywordIds(dPosts[i]) # {}))
        /\ ((\/ KeywordIds(dTitle) = {}
             \/ \A i \in 1..Len(dPosts) : KeywordIds(dPosts[i]) = {})
            => (dResult <=> \E i \in 1..Len(dPosts) :
                               SameNormalizedTitle(dTitle, dPosts[i])))

\* a title and an article both without keywords and written differently,
\* found no duplicate
C12_Witness ==
    /\ dpc = "done"
    /\ Len(dPosts) = 1
    /\ KeywordIds(dTitle) = {}
    /\ KeywordIds(dPosts[1]) = {}
    /\ dTitle.toks # << >>
    /\ ~SameNormalizedTitle(dTitle, dPosts[1])
    /\ ~dResult

-----------------------------------------------------------------------------
(* step_0_generate_topic and _topic_fallback. Titles are the token titles   *)
(* of is_duplicate. The corpus and the generated topic are drawn from the   *)
(* titles of the fallback table, a title that overlaps them differently and *)
(* the two titles of the specification's example.                           *)

\* entries of FALLBACK_TOPICS[CURRENT_MODE] the model keeps
MaxTable == 2

\* the words of the example, as keywords of the model: 1 budget, 2 apps,
\* 3 people, 4 keep, 5 using, 6 budgeting, 7 which, 8 ones. extract_keywords
\* compares the words as they are written, so "budget" and "budgeting" are
\* two keywords.
\* "Budget apps people keep using"
ExampleCandidate ==
    [toks |-> <<Keyword(1, TRUE), Keyword(2, FALSE), Keyword(3, FALSE),
                Keyword(4, FALSE), Keyword(5, FALSE)>>,
     pad |-> FALSE]

\* "Budgeting Apps: Which Ones People Actually Keep Using" ("actually" is in
\* stop_words; the colon is no letter and belongs to no word)
ExampleCorpus ==
    [toks |-> <<Keyword(6, TRUE), Keyword(2, TRUE), Keyword(7, TRUE),
                Keyword(8, TRUE), Keyword(3, TRUE), StopWord(TRUE),
                Keyword(4, TRUE), Keyword(5, TRUE)>>,
     pad |-> FALSE]

\* a title as the tables write them: capitalised words
TableTitle(lo, hi) ==
    [toks |-> <<StopWord(TRUE)>> \o KeywordRun(lo, hi, TRUE)
                \o <<ShortWord(TRUE), NoLetters>>,
     pad |-> FALSE]

\* the modes CATEGORIES and FALLBACK_TOPICS have an entry for
Modes == {"APPROVAL", "MONEY"}

\* the keys of CATEGORIES[mode], lines 301-320
CategoryKeys(mode) ==
    IF mode = "APPROVAL"
    THEN {"Productivity", "Wellness", "Tech_Tips", "Learning", "Business",
          "Science", "Finance_Basics", "Digital_Life"}
    ELSE {"SaaS_Review", "Hosting", "Finance", "Security_Tools", "AI_Tools",
          "Hardware"}

\* the keys of FALLBACK_TOPICS[mode], lines 326-374
FallbackKeys(mode) ==
    IF mode = "APPROVAL"
    THEN {"Productivity", "Wellness", "Tech_Tips", "Business", "Science",
          "Finance_Basics"}
    ELSE {"SaaS_Review", "Hosting", "Finance"}

\* the keys of CATEGORIES[CURRENT_MODE] the model keeps
Categories == {"Productivity", "Wellness"}

\* all_topics of _topic_fallback, lines 759-765, before the shuffle: entry i
\* is written with the first NumKeywords - i + 1 keywords
all_topics ==
    [i \in 1..MaxTable |->
        [category |-> IF i % 2 = 1 THEN "Productivity" ELSE "Wellness",
         topic |-> TableTitle(1, NumKeywords - i + 1),
         isStr |-> TRUE]]

\* the titles the corpus and the generated topic are drawn from
TopicTitles ==
    {ExampleCandidate, ExampleCorpus}
    \cup {all_topics[i].topic : i \in 1..MaxTable}
    \cup {TableTitle(KeywordShift + 1, NumKeywords)}

\* what json.loads(text) can be in step_0_generate_topic: no object, or an
\* object that may lack topic_title or category, whose category may be no
\* key of categories and whose topic_title may be no string. The category
\* varies with one topic and the topic with one category: the code treats
\* the two fields apart.
TopicValues ==
    {[kind |-> "other", missing |-> {}, category |-> "Unknown", isStr |-> FALSE,
      topic |-> TableTitle(1, 0)]}
    \cup
    {[kind |-> "object", missing |-> {f}, category |-> "Wellness", isStr |-> TRUE,
      topic |-> TableTitle(1, 0)] : f \in {"topic_title", "category"}}
    \cup
    {[kind |-> "object", missing |-> {}, category |-> c, isStr |-> TRUE,
      topic |-> ExampleCandidate] : c \in Categories \cup {"Unknown"}}
    \cup
    {[kind |-> "object", missing |-> {}, category |-> "Wellness", isStr |-> TRUE,
      topic |-> t] : t \in TopicTitles}
    \cup
    {[kind |-> "object", missing |-> {}, category |-> c, isStr |-> FALSE,
      topic |-> TableTitle(1, 0)] : c \in {"Wellness", "Unknown"}}

\* the generative topic call: the API raises, the text is no JSON, or it
\* parses to a value
TopicOutcomes ==
    {[ok |-> FALSE, parsed |-> FALSE], [ok |-> TRUE, parsed |-> FALSE]}
    \cup {[ok |-> TRUE, parsed |-> TRUE, value |-> v] : v \in TopicValues}

\* lines 724-744: TRUE when a statement of the try block raises: the call,
\* json.loads, result[...] on a value that is no object or lacks the key,
\* title.lower() on a topic that is no string (reached when the corpus is
\* not empty)
TopicTryRaises(o, posts) ==
    \/ ~o.ok
    \/ ~o.parsed
    \/ o.value.kind # "object"
    \/ o.value.missing # {}
    \/ (~o.value.isStr /\ posts # << >>)

\* line 744: self.is_duplicate(topic), for a call whose try block got there
TopicIsDuplicate(o, posts) ==
    o.value.isStr /\ is_duplicate(o.value.topic, posts)

\* the generated category kept whatever it is
CategoryChoices_Keep(v) == {v.category}

\* lines 739-741: the category kept, or random.choice(valid_categories)
CategoryChoices(v) ==
    IF v.category \in Categories THEN {v.category} ELSE Categories

\* random.shuffle(all_topics), line 767: any order of the entries
Shuffles(ts) ==
    { [i \in 1..Len(ts) |-> ts[f[i]]] :
        f \in { g \in [1..Len(ts) -> 1..Len(ts)] :
                  \A i, j \in 1..Len(ts) : i # j => g[i] # g[j] } }

\* random.choice(all_topics), line 775: any entry
RandomChoice(ts) == { ts[i] : i \in 1..Len(ts) }

TopicInit ==
    /\ tpc = "generate"
    /\ tPosts \in UNION { [1..n -> TopicTitles] : n \in 0..MaxCorpus }
    /\ tGen = [ok |-> FALSE]
    /\ tCalls = 0
    /\ tFallbacks = 0
    /\ tShuffled = << >>
    /\ tIdx = 0
    /\ tResult = << >>

\* the try block without its except clause: what raises leaves the function
GenerateTopicPath_Uncaught(o, posts) ==
    IF TopicTryRaises(o, posts) THEN "raise"
    ELSE IF TopicIsDuplicate(o, posts) THEN "fallback"
    ELSE "return"

\* the try block without the duplicate check of lines 744-746
GenerateTopicPath_NoDupCheck(o, posts) ==
    IF TopicTryRaises(o, posts) THEN "fallback" ELSE "return"

\* lines 723-754: where step_0_generate_topic goes after the call: the except
\* clause and a duplicate topic both call _topic_fallback, anything else
\* returns the generated pair
GenerateTopicPath(o, posts) ==
    IF TopicTryRaises(o, posts) THEN "fallback"
    ELSE IF TopicIsDuplicate(o, posts) THEN "fallback"
    ELSE "return"

\* step_0_generate_topic, lines 671-754, up to its return or to the call of
\* _topic_fallback
GenerateTopic ==
    /\ tpc = "generate"
    /\ \E o \in TopicOutcomes :
        /\ tGen' = o
        /\ tCalls' = tCalls + 1
        /\ CASE GenerateTopicPath(o, tPosts) = "return" ->
                  /\ \E c \in CategoryChoices(o.value) :
                        tResult' = <<[category |-> c, topic |-> o.value.topic,
                                      isStr |-> o.value.isStr]>>
                  /\ tpc' = "done"
                  /\ UNCHANGED tFallbacks
             [] GenerateTopicPath(o, tPosts) = "fallback" ->
                  /\ tpc' = "fallback"
                  /\ tFallbacks' = tFallbacks + 1
                  /\ UNCHANGED tResult
             [] OTHER ->
                  /\ tpc' = "raised"
                  /\ UNCHANGED <<tFallbacks, tResult>>
    /\ UNCHANGED <<tPosts, tShuffled, tIdx>>
    /\ UNCHANGED <<pipeVars, mediaVars, dupVars, fetchVars, relVars, dataVars>>

\* _topic_fallback, lines 756-767: the table is flattened and shuffled
TopicFallbackShuffle ==
    /\ tpc = "fallback"
    /\ tShuffled' \in Shuffles(all_topics)
    /\ tIdx' = 1
    /\ tpc' = "scan"
    /\ UNCHANGED <<tPosts, tGen, tCalls, tFallbacks, tResult>>
    /\ UNCHANGED <<pipeVars, mediaVars, dupVars, fetchVars, relVars, dataVars>>

\* lines 769-772: one turn of the scan: the entry is returned unless it is a
\* duplicate
TopicFallbackScan ==
    /\ tpc = "scan"
    /\ tIdx <= Len(tShuffled)
    /\ IF ~is_duplicate(tShuffled[tIdx].topic, tPosts)
       THEN /\ tResult' = <<tShuffled[tIdx]>>
            /\ tpc' = "done"
            /\ UNCHANGED tIdx
       ELSE /\ tIdx' = tIdx + 1
            /\ UNCHANGED <<tResult, tpc>>
    /\ UNCHANGED <<tPosts, tGen, tCalls, tFallbacks, tShuffled>>
    /\ UNCHANGED <<pipeVars, mediaVars, dupVars, fetchVars, relVars, dataVars>>

\* the end of the scan starting the scan again
TopicFallbackChoice_Stall ==
    /\ tpc = "scan"
    /\ tIdx > Len(tShuffled)
    /\ tIdx' = 1
    /\ UNCHANGED <<tpc, tPosts, tGen, tCalls, tFallbacks, tShuffled, tResult>>
    /\ UNCHANGED <<pipeVars, mediaVars, dupVars, fetchVars, relVars, dataVars>>

\* lines 774-777: every entry was a duplicate: random.choice(all_topics)
TopicFallbackChoice ==
    /\ tpc = "scan"
    /\ tIdx > Len(tShuffled)
    /\ \E e \in RandomChoice(tShuffled) : tResult' = <<e>>
    /\ tpc' = "done"
    /\ UNCHANGED <<tPosts, tGen, tCalls, tFallbacks, tShuffled, tIdx>>
    /\ UNCHANGED <<pipeVars, mediaVars, dupVars, fetchVars, relVars, dataVars>>

TopicNext ==
    \/ GenerateTopic
    \/ TopicFallbackShuffle
    \/ TopicFallbackScan
    \/ TopicFallbackChoice

InitTopic ==
    PipeIdle /\ MediaIdle /\ DupIdle /\ TopicInit /\ FetchIdle /\ RelatedIdle
    /\ DataIdle

SpecTopic == InitTopic /\ [][TopicNext]_vars

\* step_0_generate_topic is one sequential call: while a step is enabled it
\* is taken
FairSpecTopic == SpecTopic /\ WF_vars(TopicNext)

-----------------------------------------------------------------------------
(* Claims about the topic selector *)

\* the generative call returned an object with both fields and a string topic
GeneratedTopic ==
    /\ tCalls = 1
    /\ tGen.ok
    /\ tGen.parsed
    /\ tGen.value.kind = "object"
    /\ tGen.value.missing = {}
    /\ tGen.value.isStr

InCorpus(t) == \E i \in 1..Len(tPosts) : tPosts[i] = t

\* C11: with "Budgeting Apps: Which Ones People Actually Keep Using" in the
\* corpus, the generated topic "Budget apps people keep using" is found a
\* duplicate (keyword overlap >= 0.70) and the selector takes the fallback
\* path.
C11_ExampleRejected ==
    (/\ GeneratedTopic
     /\ tGen.value.topic = ExampleCandidate
     /\ InCorpus(ExampleCorpus))
    => /\ is_duplicate(ExampleCandidate, tPosts)
       /\ tFallbacks = 1

\* C13: whatever the generative topic call does (it raises, its text is no
\* JSON, a field is missing, the category is unknown, the topic is a
\* duplicate, or it succeeds), step_0_generate_topic raises nothing and
\* returns one (category, topic) pair with a category of the pool.
C13_SelectorAlwaysReturns ==
    /\ <>(tpc = "done")
    /\ [](tpc # "raised")
    /\ [](tpc = "done" =>
            /\ Len(tResult) = 1
            /\ tResult[1].category \in Categories)

\* a call whose text was no JSON, answered from the fallback table
C13_Witness ==
    /\ tpc = "done"
    /\ tGen.ok
    /\ ~tGen.parsed
    /\ tFallbacks = 1
    /\ Len(tResult) = 1
    /\ tResult[1] \in RandomChoice(all_topics)

\* is_duplicate of a table entry against the corpus of the run
EntryIsDuplicate(entry) == is_duplicate(entry.topic, tPosts)

AllEntriesDuplicate ==
    \A i \in 1..MaxTable : EntryIsDuplicate(all_topics[i])

\* the first entry of the shuffled table that is no duplicate
FirstNonDuplicate ==
    tShuffled[CHOOSE i \in 1..Len(tShuffled) :
                /\ ~EntryIsDuplicate(tShuffled[i])
                /\ \A j \in 1..(i - 1) : EntryIsDuplicate(tShuffled[j])]

\* C14: the selector makes one generative call at most and enters the
\* fallback path at most once; a generated duplicate is never returned but
\* sent to the fallback path; the fallback path returns the first
\* non-duplicate entry of the shuffled table when there is one; so a returned
\* topic is a duplicate only when every table entry is one.
C14_DuplicateOnlyWhenTableExhausted ==
    /\ tCalls <= 1
    /\ tFallbacks <= 1
    /\ tpc = "done" =>
        /\ (GeneratedTopic /\ is_duplicate(tGen.value.topic, tPosts)
              => tFallbacks = 1)
        /\ (tFallbacks = 1 /\ ~AllEntriesDuplicate
              => tResult[1] = FirstNonDuplicate)
        /\ (tResult[1].isStr /\ is_duplicate(tResult[1].topic, tPosts)
              => AllEntriesDuplicate)

\* a generated duplicate rejected, the first shuffled entry skipped as a
\* duplicate, the second returned
C14_Witness ==
    /\ tpc = "done"
    /\ GeneratedTopic
    /\ is_duplicate(tGen.value.topic, tPosts)
    /\ tCalls = 1
    /\ tFallbacks = 1
    /\ EntryIsDuplicate(tShuffled[1])
    /\ tResult[1] = tShuffled[2]
    /\ ~EntryIsDuplicate(tResult[1])

\* C15 as claimed: when every entry of the fallback table is a duplicate the
\* fallback path returns the first entry of the shuffled order.
C15_FirstShuffledEntry ==
    (tpc = "done" /\ tFallbacks = 1 /\ AllEntriesDuplicate)
        => tResult[1] = tShuffled[1]

\* C15 amended: when every entry of the fallback table is a duplicate the
\* fallback path ends the scan by returning an entry of the table drawn
\* afresh at random (any entry, not the first of the shuffle in particular),
\* accepting the duplicate; it neither stalls nor raises.
C15_ExhaustedReturnsSomeEntry ==
    /\ [][(tpc = "scan" /\ tIdx > Len(tShuffled))
            => (tpc' = "done" /\ tResult' \in {<<e>> : e \in RandomChoice(all_topics)})]_vars
    /\ [](tpc # "raised")
    /\ []((tpc = "done" /\ tFallbacks = 1 /\ AllEntriesDuplicate)
            => /\ tIdx = Len(tShuffled) + 1
               /\ tResult[1] \in RandomChoice(all_topics)
               /\ EntryIsDuplicate(tResult[1]))

\* every entry is a duplicate and the entry returned is not the first of the
\* shuffle
C15_Witness ==
    /\ tpc = "done"
    /\ tFallbacks = 1
    /\ AllEntriesDuplicate
    /\ tIdx = Len(tShuffled) + 1
    /\ tResult[1] = tShuffled[2]
    /\ tResult[1] # tShuffled[1]

\* the categories of the fallback table of the model
TableCategories == { all_topics[i].category : i \in 1..MaxTable }

\* C30: the category the selector returns is in the category pool of the
\* mode: a generated category of the pool is kept, one outside the pool is
\* replaced by a member of the pool, a fallback answer carries a category
\* of the fallback table; and in each mode every category of the fallback
\* table is a key of that mode's category table.
C30_CategoryInPool ==
    /\ \A m \in Modes : FallbackKeys(m) \subseteq CategoryKeys(m)
    /\ \E m \in Modes :
          /\ Categories \subseteq CategoryKeys(m)
          /\ TableCategories \subseteq FallbackKeys(m) \cap Categories
    /\ (tpc = "done" /\ tFallbacks = 0) =>
          /\ tGen.ok /\ tGen.parsed
          /\ tResult[1].category \in Categories
          /\ tGen.value.category \in Categories
                => tResult[1].category = tGen.value.category
    /\ (tpc = "done" /\ tFallbacks = 1) =>
          tResult[1].category \in TableCategories

\* a generated category outside the pool, replaced by one of the pool
C30_Witness ==
    /\ tpc = "done"
    /\ tFallbacks = 0
    /\ GeneratedTopic
    /\ tGen.value.category \notin Categories
    /\ tResult[1].category \in Categories
    /\ tResult[1].topic = tGen.value.topic

-----------------------------------------------------------------------------
(* fetch_existing_posts: the live listing page by page, then the draft      *)
(* listing. A post is known by its status, the page that listed it and its  *)
(* place on the page.                                                       *)

\* most pages of the live listing
MaxPages == 3
\* most items on one page of a listing
MaxItems == 2

\* the posts built from the n items of one page, lines 493-500 and 513-520
Items(status, page, n) ==
    [k \in 1..n |-> [status |-> status, page |-> page, k |-> k]]

\* one request.execute(): it raises, or returns n items; `more` tells whether
\* list_next finds a next page
PageOutcomes ==
    {[ok |-> FALSE, n |-> 0, more |-> FALSE]}
    \cup {[ok |-> TRUE, n |-> n, more |-> m] : n \in 0..MaxItems, m \in BOOLEAN}

\* the draft listing, lines 506-520: n posts are appended, then the listing
\* is complete (ok) or an exception ends it (the request itself raising
\* leaves n = 0)
DraftOutcomes == [ok : BOOLEAN, n : 0..MaxItems]

\* the outer except clause returning what was loaded so far
ListingFailureResult_Partial(posts) == posts

\* lines 528-530: the outer except clause returns []
ListingFailureResult(posts) == << >>

FetchInit ==
    /\ fpc = "start"
    /\ blog_id \in BOOLEAN
    /\ fPage = 0
    /\ fPosts = << >>
    /\ fFailure = "none"
    /\ existing_posts = << >>
    /\ fResult = << >>

\* lines 474-488: without a blog id [] is returned; otherwise the service is
\* built (the credentials refresh can raise) and the first request prepared
FetchStart ==
    /\ fpc = "start"
    /\ \/ /\ ~blog_id
          /\ fResult' = << >>
          /\ fpc' = "done"
          /\ UNCHANGED <<fPage, fFailure>>
       \/ /\ blog_id
          /\ \E ok \in BOOLEAN :
                IF ok
                THEN /\ fpc' = "page"
                     /\ fPage' = 1
                     /\ UNCHANGED <<fResult, fFailure>>
                ELSE /\ fFailure' = "credentials"
                     /\ fResult' = ListingFailureResult(fPosts)
                     /\ fpc' = "done"
                     /\ UNCHANGED fPage
    /\ UNCHANGED <<blog_id, fPosts, existing_posts>>
    /\ UNCHANGED <<pipeVars, mediaVars, dupVars, topicVars, relVars, dataVars>>

\* lines 490-502: one turn of the loop over the live listing
FetchPage ==
    /\ fpc = "page"
    /\ \E o \in PageOutcomes :
        /\ (o.more => fPage < MaxPages)
        /\ IF o.ok
           THEN /\ fPosts' = fPosts \o Items("live", fPage, o.n)
                /\ IF o.more
                   THEN fPage' = fPage + 1 /\ UNCHANGED fpc
                   ELSE fpc' = "drafts" /\ UNCHANGED fPage
                /\ UNCHANGED <<fFailure, fResult>>
           ELSE /\ fFailure' = IF fPage = 1 THEN "listing" ELSE "later_page"
                /\ fResult' = ListingFailureResult(fPosts)
                /\ fpc' = "done"
                /\ UNCHANGED <<fPosts, fPage>>
    /\ UNCHANGED <<blog_id, existing_posts>>
    /\ UNCHANGED <<pipeVars, mediaVars, dupVars, topicVars, relVars, dataVars>>

\* lines 504-526: the draft listing in its own try, then the cache is set
\* and the posts returned
FetchDrafts ==
    /\ fpc = "drafts"
    /\ \E o \in DraftOutcomes :
        LET posts == fPosts \o Items("draft", 1, o.n)
        IN  /\ fPosts' = posts
            /\ fFailure' = IF o.ok THEN "none" ELSE "drafts"
            /\ existing_posts' = posts
            /\ fResult' = posts
    /\ fpc' = "done"
    /\ UNCHANGED <<blog_id, fPage>>
    /\ UNCHANGED <<pipeVars, mediaVars, dupVars, topicVars, relVars, dataVars>>

FetchNext ==
    \/ FetchStart
    \/ FetchPage
    \/ FetchDrafts

InitFetch ==
    PipeIdle /\ MediaIdle /\ DupIdle /\ TopicIdle /\ FetchInit /\ RelatedIdle
    /\ DataIdle

SpecFetch == InitFetch /\ [][FetchNext]_vars

-----------------------------------------------------------------------------
(* Claims about the corpus loader *)

LivePosts(posts) == SelectSeq(posts, LAMBDA q : q.status = "live")

\* C20: fetch_existing_posts raises nothing; when the credentials, the first
\* listing request or a later page of the listing fails it returns the empty
\* sequence (and caches nothing); when only the draft listing fails it
\* returns, and caches, every live post it loaded.
C20_LoadNeverRaises ==
    /\ fpc \in {"start", "page", "drafts", "done"}
    /\ fpc = "done" =>
        /\ (fFailure \in {"credentials", "listing", "later_page"}
              => fResult = << >> /\ existing_posts = << >>)
        /\ (fFailure = "drafts"
              => /\ LivePosts(fResult) = LivePosts(fPosts)
                 /\ existing_posts = fResult)
        /\ (~blog_id => fResult = << >>)

\* the second page of the listing failed after the first had loaded posts
C20_Witness ==
    /\ fpc = "done"
    /\ fFailure = "later_page"
    /\ Len(fPosts) = MaxItems
    /\ fResult = << >>

-----------------------------------------------------------------------------
(* find_related_posts and step_6_add_internal_links. A post is its title,   *)
(* whether it has a url, and its labels; a label is a name, capitalised or  *)
(* not. Titles are the token titles; a "stop" token stands for a word of    *)
(* the stop list of find_related_posts (lines 581-583).                     *)

\* most articles in the corpus of the relatedness query
MaxRelated == 3

\* max_links=3, the default of find_related_posts
max_links_default == 3

Label(i, cap) == [id |-> i, cap |-> cap]

\* set(l.lower() for l in labels)
LowerLabels(labels) == { [l EXCEPT !.cap = FALSE] : l \in labels }

\* the labels of the new article: none, or two of them
NewLabels == { {}, {Label(1, TRUE), Label(2, FALSE)} }

\* the titles of the new article: five keywords, or none
NewTitles == { ExampleCandidate, TableTitle(1, 0) }

\* the corpus articles: with a url, every pairing of 0, 1 or 2 of the
\* keywords 1, 2 with 0, 1 or 2 of the labels; and one article without url
\* (a draft never published) that shares both keywords and both labels
RelatedPosts ==
    { [title |-> TableTitle(1, k), url |-> TRUE, labels |-> ls] :
        k \in 0..2,
        ls \in { {}, {Label(1, FALSE)}, {Label(1, TRUE), Label(2, TRUE)} } }
    \cup { [title |-> TableTitle(1, 2), url |-> FALSE,
            labels |-> {Label(1, TRUE), Label(2, TRUE)}] }

\* the stop_words of find_related_posts, lines 581-583
related_stop_words == {StopWord(FALSE)}

\* extract_keywords of find_related_posts, lines 585-587
extract_related_keywords(t) ==
    { w \in { Words(t)[k] : k \in 1..Len(Words(t)) } :
        w \notin related_stop_words /\ WordLen(w) > 2 }

\* the score with a shared label counted once
Score_Unweighted(post, new_title, labels) ==
    Cardinality(LowerLabels(labels) \cap LowerLabels(post.labels))
    + Cardinality(extract_related_keywords(new_title)
                    \cap extract_related_keywords(post.title))

\* lines 597-607: 2 for every shared label, 1 for every shared keyword
Score(post, new_title, labels) ==
    2 * Cardinality(LowerLabels(labels) \cap LowerLabels(post.labels))
    + Cardinality(extract_related_keywords(new_title)
                    \cap extract_related_keywords(post.title))

\* the loop keeping the posts that score 0 as well
RECURSIVE Scored_KeepZero(_, _, _, _)
Scored_KeepZero(posts, new_title, labels, i) ==
    IF i > Len(posts) THEN << >>
    ELSE IF ~posts[i].url THEN Scored_KeepZero(posts, new_title, labels, i + 1)
    ELSE <<[score |-> Score(posts[i], new_title, labels), idx |-> i]>>
         \o Scored_KeepZero(posts, new_title, labels, i + 1)

\* lines 592-610: `scored`, from article i on: the posts without url are
\* skipped, the others kept when they score above 0
RECURSIVE Scored(_, _, _, _)
Scored(posts, new_title, labels, i) ==
    IF i > Len(posts) THEN << >>
    ELSE IF ~posts[i].url THEN Scored(posts, new_title, labels, i + 1)
    ELSE IF Score(posts[i], new_title, labels) > 0
    THEN <<[score |-> Score(posts[i], new_title, labels), idx |-> i]>>
         \o Scored(posts, new_title, labels, i + 1)
    ELSE Scored(posts, new_title, labels, i + 1)

\* e put into the sorted sequence before the first element that scores less:
\* after the elements of equal score
RECURSIVE InsertDesc(_, _)
InsertDesc(sorted, e) ==
    IF sorted = << >> THEN <<e>>
    ELSE IF Head(sorted).score < e.score THEN <<e>> \o sorted
    ELSE <<Head(sorted)>> \o InsertDesc(Tail(sorted), e)

\* the sort in ascending order of score
RECURSIVE SortDesc_Ascending(_)
SortDesc_Ascending(scored) ==
    IF scored = << >> THEN << >>
    ELSE LET rest == SortDesc_Ascending(Tail(scored))
             lower == SelectSeq(rest, LAMBDA x : x.score < Head(scored).score)
             upper == SelectSeq(rest, LAMBDA x : x.score >= Head(scored).score)
         IN  lower \o <<Head(scored)>> \o upper

\* scored.sort(key=lambda x: x[0], reverse=True), line 612: a stable sort,
\* equal scores stay in the order they had
RECURSIVE SortDesc(_)
SortDesc(scored) ==
    IF scored = << >> THEN << >>
    ELSE InsertDesc(SortDesc(SubSeq(scored, 1, Len(scored) - 1)),
                    scored[Len(scored)])

\* scored[:max_links]
Take(seq, n) == SubSeq(seq, 1, IF n < Len(seq) THEN n ELSE Len(seq))

\* find_related_posts, lines 573-613; the posts returned are named by their
\* place in the corpus
find_related_posts(new_title, labels, posts, max_links) ==
    IF posts = << >> THEN << >>
    ELSE LET top == Take(SortDesc(Scored(posts, new_title, labels, 1)), max_links)
         IN  [k \in 1..Len(top) |-> top[k].idx]

RelatedInit ==
    /\ rpc = "start"
    /\ rTitle \in NewTitles
    /\ rLabels \in NewLabels
    /\ rMax \in 1..max_links_default
    /\ rPosts \in UNION { [1..n -> RelatedPosts] : n \in 0..MaxRelated }
    /\ rResult = << >>
    /\ rContent = Doc("body", MinLength)

\* one call find_related_posts(title, labels, max_links)
FindRelatedPosts ==
    /\ rpc = "start"
    /\ rResult' = find_related_posts(rTitle, rLabels, rPosts, rMax)
    /\ rpc' = "returned"
    /\ UNCHANGED <<rTitle, rLabels, rMax, rPosts, rContent>>
    /\ UNCHANGED <<pipeVars, mediaVars, dupVars, topicVars, fetchVars, dataVars>>

\* step_6_add_internal_links, lines 1119-1136: the query with the default
\* max_links, then the block appended when anything was returned
AddInternalLinks ==
    /\ rpc = "start"
    /\ rMax = max_links_default
    /\ LET related == find_related_posts(rTitle, rLabels, rPosts, max_links_default)
       IN  /\ rResult' = related
           /\ rContent' = AddInternalLinksResult(rContent, related # << >>)
    /\ rpc' = "linked"
    /\ UNCHANGED <<rTitle, rLabels, rMax, rPosts>>
    /\ UNCHANGED <<pipeVars, mediaVars, dupVars, topicVars, fetchVars, dataVars>>

RelatedNext ==
    \/ FindRelatedPosts
    \/ AddInternalLinks

InitRelated ==
    PipeIdle /\ MediaIdle /\ DupIdle /\ TopicIdle /\ FetchIdle /\ RelatedInit
    /\ DataIdle

SpecRelated == InitRelated /\ [][RelatedNext]_vars

-----------------------------------------------------------------------------
(* Claims about the relatedness query *)

RelatedReturned == rpc \in {"returned", "linked"}

\* the score of corpus article i against the new article
ScoreOf(i) == Score(rPosts[i], rTitle, rLabels)

\* the place of corpus article i in the result, 0 when it is not returned
PlaceOf(i) ==
    IF \E k \in 1..Len(rResult) : rResult[k] = i
    THEN CHOOSE k \in 1..Len(rResult) : rResult[k] = i
    ELSE 0

\* corpus article i can be linked and scores above 0
Eligible(i) == rPosts[i].url /\ ScoreOf(i) > 0

\* C21: the articles returned are in descending order of
\* score = 2 x (shared labels) + (shared title keywords), articles of equal
\* score in their corpus order, and at most max_links of them: they are the
\* first max_links of that order over the articles with a url that score above
\* 0: any such article left out ranks after every one returned.
C21_RelatedSortedTruncated ==
    RelatedReturned =>
        /\ Len(rResult) <= rMax
        /\ \A k \in 1..Len(rResult) : rResult[k] \in 1..Len(rPosts)
        /\ \A k, l \in 1..Len(rResult) :
              k < l =>
                /\ rResult[k] # rResult[l]
                /\ ScoreOf(rResult[k]) >= ScoreOf(rResult[l])
                /\ (ScoreOf(rResult[k]) = ScoreOf(rResult[l])
                      => rResult[k] < rResult[l])
        /\ \A i \in 1..Len(rPosts) :
              (Eligible(i) /\ PlaceOf(i) = 0) =>
                /\ Len(rResult) = rMax
                /\ \A k \in 1..Len(rResult) :
                      \/ ScoreOf(rResult[k]) > ScoreOf(i)
                      \/ (ScoreOf(rResult[k]) = ScoreOf(i) /\ rResult[k] < i)

\* three articles, the first two of equal score and the third scoring more:
\* the third comes first, the tie keeps its corpus order, one is cut off
C21_Witness ==
    /\ rpc = "returned"
    /\ rMax = 2
    /\ Len(rPosts) = 3
    /\ Eligible(1) /\ Eligible(2) /\ Eligible(3)
    /\ ScoreOf(1) = ScoreOf(2)
    /\ rPosts[1] # rPosts[2]
    /\ ScoreOf(3) > ScoreOf(1)
    /\ rResult = <<3, 1>>

\* C22 as claimed: no article scoring 0 is returned, and step 6 appends the
\* related-articles block exactly when some corpus article scores above 0.
C22_BlockIffPositiveScore ==
    /\ RelatedReturned => \A k \in 1..Len(rResult) : ScoreOf(rResult[k]) > 0
    /\ rpc = "linked" =>
        ((rContent.links = 1) <=> \E i \in 1..Len(rPosts) : ScoreOf(i) > 0)

\* C22 amended: no article scoring 0 is returned, also when fewer than
\* max_links articles score above 0; step 6 appends the related-articles
\* block exactly when some corpus article that has a url scores above 0, and
\* returns the body unchanged otherwise.
C22_BlockIffLinkablePositiveScore ==
    /\ RelatedReturned =>
          \A k \in 1..Len(rResult) :
              ScoreOf(rResult[k]) > 0 /\ rPosts[rResult[k]].url
    /\ rpc = "linked" =>
        /\ ((rContent.links = 1) <=> \E i \in 1..Len(rPosts) : Eligible(i))
        /\ ((rContent.links = 0) => rContent = Doc("body", MinLength))

\* one article scores above 0 and is linked, another scores 0 and is left
\* out although there is room for it
C22_Witness ==
    /\ rpc = "linked"
    /\ Len(rPosts) = 2
    /\ rPosts[1].url /\ ScoreOf(1) = 0
    /\ Eligible(2)
    /\ rResult = <<2>>
    /\ Len(rResult) < rMax
    /\ rContent.links = 1

\* the labels article i shares with the new article
SharedLabels(i) == LowerLabels(rLabels) \cap LowerLabels(rPosts[i].labels)

\* articles i and j differ only in that i shares one more label
OneMoreSharedLabel(i, j) ==
    /\ rPosts[i].title = rPosts[j].title
    /\ rPosts[i].url = rPosts[j].url
    /\ SharedLabels(j) \subseteq SharedLabels(i)
    /\ Cardinality(SharedLabels(i)) = Cardinality(SharedLabels(j)) + 1

\* C23: of two articles that differ only in that one shares one more label
\* with the new article, that one scores 2 more, and whenever the other is
\* returned it is returned too, before it.
C23_LabelMonotonic ==
    RelatedReturned =>
        \A i, j \in 1..Len(rPosts) :
            OneMoreSharedLabel(i, j) =>
                /\ ScoreOf(i) = ScoreOf(j) + 2
                /\ (PlaceOf(j) > 0 => PlaceOf(i) > 0 /\ PlaceOf(i) < PlaceOf(j))

\* the article with one more shared label stands later in the corpus and is
\* returned first
C23_Witness ==
    /\ rpc = "returned"
    /\ Len(rPosts) = 2
    /\ OneMoreSharedLabel(2, 1)
    /\ Eligible(1)
    /\ rResult = <<2, 1>>

-----------------------------------------------------------------------------
(* run() at the level of the values it creates and hands on: the variation  *)
(* profile of __init__, the corpus, the topic, the title and the labels.    *)
(* Titles are the token sequences of is_duplicate.                          *)

\* the entries of SYSTEM_PROMPTS, WRITING_FORMATS, TONE_MODIFIERS and
\* HUMAN_QUIRKS the model keeps, by name
Personas == {"researcher", "skeptic"}
Formats == {"comparison_table", "myth_busting"}
Tones == {"chatty", "skeptical"}
HumanQuirks == {"aside", "fragment", "question"}

\* line 438: self.persona["prompt"] + UNIVERSAL_RULES
SystemPrompt(p) == <<p, "UNIVERSAL_RULES">>

\* random.sample(population, k): a list of k distinct members
Samples(population, k) ==
    { q \in [1..k -> population] : \A i, j \in 1..k : i # j => q[i] # q[j] }

\* tag_map.get(CURRENT_MODE, []), lines 1305-1309 and 1213-1217: the same
\* table in run() and in step_7_publish
tag_map(mode) ==
    IF mode = "APPROVAL" THEN {"Guides", "How-To", "Research"}
    ELSE {"Reviews", "Comparisons", "Tools"}

\* the keys of CATEGORIES[mode] the model keeps
DataCategories(mode) ==
    IF mode = "APPROVAL" THEN {"Productivity", "Tech_Tips"} ELSE {"SaaS_Review"}

\* category.replace('_', ' ')
CategoryLabel(c) ==
    CASE c = "Tech_Tips" -> "Tech Tips"
      [] c = "SaaS_Review" -> "SaaS Review"
      [] OTHER -> c

Range(seq) == { seq[i] : i \in 1..Len(seq) }

\* no title yet
NoTitleYet == [toks |-> << >>, pad |-> FALSE]

\* the titles a topic or a plan comes with: a long one and a short one
DataTitles == { TableTitle(1, NumKeywords), TableTitle(1, KeywordShift) }

\* line 1281: f"{title} — A Fresh Look". The dash has no letter, "a" is a
\* stop word, "fresh" and "look" are two keywords no other title of the model
\* is written with
FreshLook(t) ==
    [t EXCEPT !.toks = @ \o <<NoLetters, StopWord(TRUE),
                              Keyword(NumKeywords + 1, TRUE),
                              Keyword(NumKeywords + 2, TRUE)>>]

\* what fetch_existing_posts can leave in self.existing_posts: nothing, one
\* article, or an article and the same title once adjusted
DataCorpora ==
    { << >> } \cup { <<t>> : t \in DataTitles }
    \cup { <<t, FreshLook(t)>> : t \in DataTitles }

\* __init__, lines 436-444
DataInit ==
    /\ xpc = "load"
    /\ xMode \in Modes
    /\ persona \in Personas
    /\ system_prompt = SystemPrompt(persona)
    /\ writing_format \in Formats
    /\ tone \in Tones
    /\ quirks \in Samples(HumanQuirks, 3)
    /\ xPosts = << >>
    /\ xCategory = ""
    /\ xTopic = NoTitleYet
    /\ xTitle = NoTitleYet
    /\ xTags = << >>
    /\ xLabels = {}

\* run() line 1260: fetch_existing_posts assigns self.existing_posts
DataFetch ==
    /\ xpc = "load"
    /\ xPosts' \in DataCorpora
    /\ xpc' = "topic"
    /\ UNCHANGED <<xMode, persona, system_prompt, writing_format, tone, quirks,
                   xCategory, xTopic, xTitle, xTags, xLabels>>
    /\ UNCHANGED <<pipeVars, mediaVars, dupVars, topicVars, fetchVars, relVars>>

\* run() line 1261: step_0_generate_topic returns the pair
DataTopic ==
    /\ xpc = "topic"
    /\ xCategory' \in DataCategories(xMode)
    /\ xTopic' \in DataTitles
    /\ xpc' = "plan"
    /\ UNCHANGED <<xMode, persona, system_prompt, writing_format, tone, quirks,
                   xPosts, xTitle, xTags, xLabels>>
    /\ UNCHANGED <<pipeVars, mediaVars, dupVars, topicVars, fetchVars, relVars>>

\* run() lines 1275-1281: the working title, with the suffix when
\* is_duplicate reports it
PlannedTitle(working_title, posts) ==
    IF is_duplicate(working_title, posts) THEN FreshLook(working_title)
    ELSE working_title

\* run() lines 1270-1284: no plan ends the run, a plan that lacks a field
\* read here raises, otherwise the title is set
DataPlan ==
    /\ xpc = "plan"
    /\ \/ xpc' = "aborted" /\ UNCHANGED xTitle
       \/ xpc' = "crashed" /\ UNCHANGED xTitle
       \/ \E working_title \in DataTitles :
            /\ xTitle' = PlannedTitle(working_title, xPosts)
            /\ xpc' = "draft"
    /\ UNCHANGED <<xMode, persona, system_prompt, writing_format, tone, quirks,
                   xPosts, xCategory, xTopic, xTags, xLabels>>
    /\ UNCHANGED <<pipeVars, mediaVars, dupVars, topicVars, fetchVars, relVars>>

\* run() lines 1287-1290: step_2_write_draft reads the format, the tone, the
\* persona and the quirks; no draft ends the run, a plan that lacks a field
\* of the prompt raises
DataDraft ==
    /\ xpc = "draft"
    /\ xpc' \in {"critique", "aborted", "crashed"}
    /\ UNCHANGED <<xMode, persona, system_prompt, writing_format, tone, quirks,
                   xPosts, xCategory, xTopic, xTitle, xTags, xLabels>>
    /\ UNCHANGED <<pipeVars, mediaVars, dupVars, topicVars, fetchVars, relVars>>

\* run() lines 1293-1295: step_3_self_critique reads the tone and the format
DataCritique ==
    /\ xpc = "critique"
    /\ xpc' = "humanize"
    /\ UNCHANGED <<xMode, persona, system_prompt, writing_format, tone, quirks,
                   xPosts, xCategory, xTopic, xTitle, xTags, xLabels>>
    /\ UNCHANGED <<pipeVars, mediaVars, dupVars, topicVars, fetchVars, relVars>>

\* run() line 1298
DataHumanize ==
    /\ xpc = "humanize"
    /\ xpc' = "images"
    /\ UNCHANGED <<xMode, persona, system_prompt, writing_format, tone, quirks,
                   xPosts, xCategory, xTopic, xTitle, xTags, xLabels>>
    /\ UNCHANGED <<pipeVars, mediaVars, dupVars, topicVars, fetchVars, relVars>>

\* run() line 1301
DataImages ==
    /\ xpc = "images"
    /\ xpc' = "links"
    /\ UNCHANGED <<xMode, persona, system_prompt, writing_format, tone, quirks,
                   xPosts, xCategory, xTopic, xTitle, xTags, xLabels>>
    /\ UNCHANGED <<pipeVars, mediaVars, dupVars, topicVars, fetchVars, relVars>>

\* run() lines 1304-1311: tags is the category label and a sample of two
\* tags; step_6_add_internal_links scores the corpus with it
DataLinks ==
    /\ xpc = "links"
    /\ \E sample \in Samples(tag_map(xMode), 2) :
          xTags' = <<CategoryLabel(xCategory)>> \o sample
    /\ xpc' = "publish"
    /\ UNCHANGED <<xMode, persona, system_prompt, writing_format, tone, quirks,
                   xPosts, xCategory, xTopic, xTitle, xLabels>>
    /\ UNCHANGED <<pipeVars, mediaVars, dupVars, topicVars, fetchVars, relVars>>

\* step_7_publish adding the article it submitted to self.existing_posts
DataPublish_Remember ==
    /\ xpc = "publish"
    /\ \E sample \in Samples(tag_map(xMode), 2) :
          xLabels' = Range(<<CategoryLabel(xCategory)>> \o sample)
    /\ xPosts' = Append(xPosts, xTitle)
    /\ xpc' = "done"
    /\ UNCHANGED <<xMode, persona, system_prompt, writing_format, tone, quirks,
                   xCategory, xTopic, xTitle, xTags>>
    /\ UNCHANGED <<pipeVars, mediaVars, dupVars, topicVars, fetchVars, relVars>>

\* run() line 1314 and step_7_publish lines 1212-1223: the labels of the
\* request are the set of the category label and a sample of two tags drawn
\* here
DataPublish ==
    /\ xpc = "publish"
    /\ \E sample \in Samples(tag_map(xMode), 2) :
          xLabels' = Range(<<CategoryLabel(xCategory)>> \o sample)
    /\ xpc' = "done"
    /\ UNCHANGED <<xMode, persona, system_prompt, writing_format, tone, quirks,
                   xPosts, xCategory, xTopic, xTitle, xTags>>
    /\ UNCHANGED <<pipeVars, mediaVars, dupVars, topicVars, fetchVars, relVars>>

DataNext ==
    \/ DataFetch
    \/ DataTopic
    \/ DataPlan
    \/ DataDraft
    \/ DataCritique
    \/ DataHumanize
    \/ DataImages
    \/ DataLinks
    \/ DataPublish

InitData ==
    PipeIdle /\ MediaIdle /\ DupIdle /\ TopicIdle /\ FetchIdle /\ RelatedIdle
    /\ DataInit

SpecData == InitData /\ [][DataNext]_vars

-----------------------------------------------------------------------------
(* Claims about the values of the run *)

\* C31: the variation profile (persona, system prompt, format, tone, the 3
\* quirks) never changes after __init__, the corpus snapshot never changes
\* after it was loaded, and the topic (category and topic string) never
\* changes after it was selected, in runs that end in an abort or an
\* exception as in runs that publish.
C31_CreatedThenReadOnly ==
    [][/\ UNCHANGED <<persona, system_prompt, writing_format, tone, quirks>>
       /\ xpc # "load" => UNCHANGED xPosts
       /\ xpc \notin {"load", "topic"} => UNCHANGED <<xCategory, xTopic>>]_vars

\* a run that published, with a corpus, a topic and a profile of 3 quirks
C31_Witness ==
    /\ xpc = "done"
    /\ Len(xPosts) = 2
    /\ xTopic \in DataTitles
    /\ xTitle # xTopic
    /\ Len(quirks) = 3
    /\ system_prompt = SystemPrompt(persona)
    /\ xLabels # {}

\* C35: the labels submitted with the draft are the labels the related
\* articles of that draft were scored with.
C35_SameLabelSet ==
    xpc = "done" => xLabels = Range(xTags)

\* C36: the title that goes to the publisher is no duplicate of a corpus
\* article: a working title is_duplicate reports is adjusted into one it
\* does not report.
C36_SubmittedTitleNotDuplicate ==
    xpc \in {"draft", "critique", "humanize", "images", "links", "publish", "done"}
        => ~is_duplicate(xTitle, xPosts)

=============================================================================
